---- MODULE Spec2Model ----
(***************************************************************************)
(* Model of the pgscv service supervisor (package service): the service    *)
(* repository, auto-discovery, collector attachment and health checks.     *)
(*                                                                         *)
(* Strings of the program are TLA+ strings.  A connection string is kept   *)
(* as the sequence of its space-separated key=value words, each word a     *)
(* pair <<key, value>>; a word without "=" is a one-element tuple.         *)
(* A text file is the sequence of its lines.                               *)
(***************************************************************************)
EXTENDS Integers, Sequences, FiniteSets, TLC

VARIABLES
    Services,       \* Repository.Services: map service key -> Service
    registered,     \* collectors registered with the prometheus registerer
    created,        \* per service id, the number of collectors built for it
    pc,             \* position of the supervisor goroutine
    ticked,         \* the discovery loop has completed an iteration
    cancelled,      \* the context passed to the loop is cancelled
    env,            \* the host: process table and endpoints accepting connections
    config,         \* service.Config passed to the loop (its ConnDefaults)
    streak,         \* history: consecutive failed health probes per key
    evicted,        \* history: records removed by the latest health check
    mu,             \* Repository.RWMutex: [w: the writer or "none", r: the readers]
    at,             \* per goroutine, the map operation it is at and whether
                    \* it has entered it (holds the lock the operation takes)
    hc,             \* locals of healthcheckServices in the loop goroutine
    call,           \* locals of the goroutine calling the exported methods
    ret,            \* a function called on its own: its name, arguments and
                    \* the value it returned
    cpuCollector,   \* cpuCollector: [cpuStats: the per-CPU cache,
                    \* cpuStatsSum: the aggregate reported]
    scrape,         \* cpuCollector.updateStat in the goroutines that scrape:
                    \* [mutex: the holder of cpuStatsMutex or "", of: per
                    \* goroutine its position, its reading, the samples it
                    \* sent and the aggregate each was taken from]
    conns           \* the connections of the connection probes: [open: the
                    \* connections not closed, opened: how many were opened,
                    \* at: the position of the probe, site: its caller,
                    \* connString, db: the connection it holds, results:
                    \* what the probes returned]

\* The variables of the goroutines taken statement by statement.
conc == <<mu, at, hc, call>>

vars == <<Services, registered, created, pc, ticked, cancelled, env,
          config, streak, evicted, conc, ret, cpuCollector, scrape, conns>>

----------------------------------------------------------------------------
(* Bounds *)

MaxCollectors == 2

\* Calls of exported methods the calling goroutine makes.
MaxCalls == 1

\* The CPUs of a reading of /proc/stat and the highest counter value in it.
MaxCPUs == 2
MaxCounter == 2

----------------------------------------------------------------------------
(* Program constants *)

defaultHost == "127.0.0.1"
defaultPgbouncerPort == 6432
defaultPostgresUsername == "pgscv"
defaultPostgresDbname == "postgres"
defaultPgbouncerUsername == "pgscv"
defaultPgbouncerDbname == "pgbouncer"

ServiceTypePostgresql == "postgres"
ServiceTypePgbouncer == "pgbouncer"
ServiceTypeSystem == "system"

errorThreshold == 10

\* nil of the Collector interface
NoCollector == [sid |-> "", n |-> 0]

\* The zero value of Service, returned by a map read of an absent key.
ZeroService ==
    [ServiceID |-> "",
     ConnSettings |-> [ServiceType |-> "", Conninfo |-> <<>>],
     Collector |-> NoCollector,
     TotalErrors |-> 0]

SystemService ==
    [ServiceID |-> "system:0",
     ConnSettings |-> [ServiceType |-> ServiceTypeSystem, Conninfo |-> <<>>],
     Collector |-> NoCollector,
     TotalErrors |-> 0]

----------------------------------------------------------------------------
(* strconv *)

Numbers == {0, 1, 32, 40, 42, 50, 5432, 6432, 16432, 1700000000}

Itoa(n) == ToString(n)

\* strconv.Atoi: [ok, n]; only decimal renderings of integers parse.
Atoi(s) ==
    IF \E n \in Numbers : Itoa(n) = s
    THEN [ok |-> TRUE, n |-> CHOOSE n \in Numbers : Itoa(n) = s]
    ELSE [ok |-> FALSE, n |-> 0]

----------------------------------------------------------------------------
(* Repository: the map operations.  Each takes the map and returns the new *)
(* map or the value read.                                                  *)

\* An add that keeps the record of an id already present.
addServiceIfAbsent(S, id, s) ==
    IF id \in DOMAIN S THEN S ELSE [k \in DOMAIN S \cup {id} |-> IF k = id THEN s ELSE S[k]]

addService(S, id, s) ==
    [k \in DOMAIN S \cup {id} |-> IF k = id THEN s ELSE S[k]]

\* A read that gives a pooler record for an absent key.
getServiceAbsentAsPooler(S, id) ==
    IF id \in DOMAIN S THEN S[id]
    ELSE [ZeroService EXCEPT !.ConnSettings.ServiceType = ServiceTypePgbouncer]

getService(S, id) ==
    IF id \in DOMAIN S THEN S[id] ELSE ZeroService

\* An increment of the failure counter by two.
markServiceFailedTwice(S, id) ==
    addService(S, id,
        [getService(S, id) EXCEPT !.TotalErrors = @ + 2])

markServiceFailed(S, id) ==
    addService(S, id,
        [getService(S, id) EXCEPT !.TotalErrors = @ + 1])

getServiceStatus(S, id) == getService(S, id).TotalErrors

markServiceHealthy(S, id) ==
    addService(S, id,
        [getService(S, id) EXCEPT !.TotalErrors = 0])

removeService(S, id) ==
    [k \in DOMAIN S \ {id} |-> S[k]]

totalServices(S) == Cardinality(DOMAIN S)

\* The sequences that list every element of K once.
RECURSIVE Orders(_)
Orders(K) ==
    IF K = {} THEN {<<>>}
    ELSE UNION {{<<k>> \o o : o \in Orders(K \ {k})} : k \in K}

\* getServiceIDs: the keys, in the (unspecified) order of a Go map range.
getServiceIDs(S) == Orders(DOMAIN S)

----------------------------------------------------------------------------
(* The host the agent runs on.  env gives, per engine, whether its process *)
(* is in the process table and which of its endpoints accept a connection  *)
(* of the agent: "absent" (no process), "down" (process, no connection),   *)
(* "tcp" (TCP only, the unix socket refuses), "up".  pgA and pgB are two    *)
(* engines on the same port with different socket directories and listen   *)
(* addresses; the pooler runs throughout.                                  *)

EnvStates ==
    [pgA : {"absent", "down", "tcp", "up"},
     pgB : {"absent", "down", "up"},
     bouncer : {"down", "up"}]

\* Text files of the host: path -> lines.
Files ==
    [p \in {"/var/lib/pg/postmaster.pid", "/srv/pg2/postmaster.pid",
            "/srv/pg3/postmaster.pid", "/etc/pgbouncer/pgbouncer.ini"} |->
        CASE p = "/var/lib/pg/postmaster.pid" ->
                <<"42", "/var/lib/pg", "1700000000", "5432", "/tmp", "*">>
          [] p = "/srv/pg2/postmaster.pid" ->
                <<"40", "/srv/pg2", "1700000000", "5432",
                  "/var/run/postgresql", "10.0.0.1">>
          [] p = "/srv/pg3/postmaster.pid" ->
                \* a port line that is no integer
                <<"32", "/srv/pg3", "1700000000", "x5433", "/tmp", "*">>
          [] p = "/etc/pgbouncer/pgbouncer.ini" ->
                \* an ini line is the sequence of its pieces: words,
                \* " ", "\t", "=", ",", ";", "#"
                <<<<";", " ", "pooler", " ", "settings">>,
                  <<"[pgbouncer]">>,
                  <<"listen_addr", " ", "=", " ", "*", ",", " ", "10.0.0.1">>,
                  <<>>,
                  <<"listen_port", " ", "=", " ", "6432">>>>]

\* The processes that can be in the process table, by pid.  err is the
\* error of process.NewProcess ("gone": the process has exited since the
\* enumeration) or of proc.Name ("noname").
Processes ==
    [pid \in {1, 20, 21, 30, 31, 32, 33, 40, 42, 43, 50} |->
        CASE pid = 1 -> [err |-> "", name |-> "systemd", ppid |-> 0,
                         cmdline |-> <<"/sbin/init">>]
          [] pid = 20 -> [err |-> "gone", name |-> "", ppid |-> 0, cmdline |-> <<>>]
          [] pid = 21 -> [err |-> "noname", name |-> "", ppid |-> 1, cmdline |-> <<>>]
          [] pid = 30 -> [err |-> "", name |-> "postgres", ppid |-> 1,
                          cmdline |-> <<"/usr/bin/postgres">>]
          [] pid = 31 -> [err |-> "", name |-> "postgres", ppid |-> 1,
                          cmdline |-> <<"/usr/bin/postgres", "-D", "/srv/none">>]
          [] pid = 32 -> [err |-> "", name |-> "postgres", ppid |-> 1,
                          cmdline |-> <<"/usr/bin/postgres", "-D", "/srv/pg3">>]
          [] pid = 33 -> [err |-> "", name |-> "postgres", ppid |-> 1,
                          cmdline |-> <<"/usr/bin/postgres", "-D">>]
          [] pid = 40 -> [err |-> "", name |-> "postgres", ppid |-> 1,
                          cmdline |-> <<"/usr/bin/postgres", "-D", "/srv/pg2">>]
          [] pid = 42 -> [err |-> "", name |-> "postgres", ppid |-> 1,
                          cmdline |-> <<"/usr/bin/postgres", "-D", "/var/lib/pg">>]
          [] pid = 43 -> [err |-> "", name |-> "postgres", ppid |-> 42,
                          cmdline |-> <<"postgres: checkpointer">>]
          [] pid = 50 -> [err |-> "", name |-> "pgbouncer", ppid |-> 1,
                          cmdline |-> <<"/usr/sbin/pgbouncer", "-d",
                                        "/etc/pgbouncer/pgbouncer.ini">>]]

\* The process pid is in the process table of host state e.  The
\* processes 20 to 33 are there throughout; none of them can be discovered.
Running(e, pid) ==
    CASE pid = 40 -> e.pgB # "absent"
      [] pid \in {42, 43} -> e.pgA # "absent"
      [] OTHER -> TRUE

\* process.Pids(): the pids of the process table, in ascending order.
Pids(e) ==
    SelectSeq(<<1, 20, 21, 30, 31, 32, 33, 40, 42, 43, 50>>,
              LAMBDA pid : Running(e, pid))

\* Whether a connection to host:port is accepted in host state e.
Accepts(e, host, port) ==
    \/ host = "/tmp" /\ port = 5432 /\ e.pgA = "up"
    \/ host \in {"127.0.0.1", "localhost"} /\ port = 5432 /\ e.pgA \in {"tcp", "up"}
    \/ host = "/var/run/postgresql" /\ port = 5432 /\ e.pgB = "up"
    \/ host = "10.0.0.1" /\ port = 5432 /\ e.pgB = "up"
    \/ host = "127.0.0.1" /\ port = 6432 /\ e.bouncer = "up"

\* F applied to the value of v, which is computed once.
With(v, F(_)) == CHOOSE r \in {F(x) : x \in {v}} : TRUE

\* os.ReadFile
ReadFile(path) ==
    IF path \in DOMAIN Files
    THEN [ok |-> TRUE, content |-> Files[path]]
    ELSE [ok |-> FALSE, content |-> <<>>]

----------------------------------------------------------------------------
(* Connection strings *)

\* The value of the last word of connString with the given key, or def.
LastValue(connString, key, def) ==
    LET hits == {i \in 1..Len(connString) : connString[i][1] = key}
    IN IF hits = {} THEN def
       ELSE connString[CHOOSE i \in hits : \A j \in hits : j <= i][2]

\* pgx.ParseConfig: fails on a word that is not key=value and on a port
\* that is not a number; host and port default as in libpq.
ParseConfig(connString) ==
    LET wellFormed == \A i \in 1..Len(connString) : Len(connString[i]) = 2
        port == IF wellFormed
                THEN Atoi(LastValue(connString, "port", "5432"))
                ELSE [ok |-> FALSE, n |-> 0]
    IN IF wellFormed /\ port.ok
       THEN [ok |-> TRUE,
             Host |-> LastValue(connString, "host", "localhost"),
             Port |-> port.n]
       ELSE [ok |-> FALSE, Host |-> "", Port |-> 0]

\* store.NewWithConfig followed by Close: TRUE iff the connection opens.
Connects(e, pgconfig) == Accepts(e, pgconfig.Host, pgconfig.Port)

\* attemptConnect: TRUE iff it returns nil.
attemptConnect(e, connString) ==
    LET pgconfig == ParseConfig(connString)
    IN pgconfig.ok /\ Connects(e, pgconfig)

Lookup(m, key, def) == IF key \in DOMAIN m THEN m[key] ELSE def

\* A connection string that takes the listen address for either transport.
newPostgresConnectionStringByAddress(connParams, defaults, unix) ==
    LET username == Lookup(defaults, "postgres_username", defaultPostgresUsername)
        dbname == Lookup(defaults, "postgres_dbname", defaultPostgresDbname)
        password == Lookup(defaults, "postgres_password", "")
        s0 == <<<<"application_name", "pgscv">>>>
        s1 == IF connParams.listenAddr # ""
              THEN Append(s0, <<"host", connParams.listenAddr>>)
              ELSE s0
        s2 == IF connParams.listenPort > 0
              THEN Append(s1, <<"port", Itoa(connParams.listenPort)>>)
              ELSE s1
        s3 == s2 \o <<<<"user", username>>, <<"dbname", dbname>>>>
    IN IF password # "" THEN Append(s3, <<"password", password>>) ELSE s3

newPostgresConnectionString(connParams, defaults, unix) ==
    LET username == Lookup(defaults, "postgres_username", defaultPostgresUsername)
        dbname == Lookup(defaults, "postgres_dbname", defaultPostgresDbname)
        password == Lookup(defaults, "postgres_password", "")
        s0 == <<<<"application_name", "pgscv">>>>
        s1 == IF unix /\ connParams.unixSocketDirPath # ""
              THEN Append(s0, <<"host", connParams.unixSocketDirPath>>)
              ELSE IF ~unix /\ connParams.listenAddr # ""
              THEN Append(s0, <<"host", connParams.listenAddr>>)
              ELSE s0
        s2 == IF connParams.listenPort > 0
              THEN Append(s1, <<"port", Itoa(connParams.listenPort)>>)
              ELSE s1
        s3 == s2 \o <<<<"user", username>>, <<"dbname", dbname>>>>
    IN IF password # "" THEN Append(s3, <<"password", password>>) ELSE s3

newPgbouncerConnectionString(connParams, defaults) ==
    LET username == Lookup(defaults, "pgbouncer_username", defaultPgbouncerUsername)
        password == Lookup(defaults, "pgbouncer_password", "")
        s0 == <<<<"application_name", "pgscv">>>>
        s1 == IF connParams.listenAddr # ""
              THEN Append(s0, <<"host", connParams.listenAddr>>)
              ELSE IF connParams.unixSocketDirPath # ""
              THEN Append(s0, <<"host", connParams.unixSocketDirPath>>)
              ELSE s0
        s2 == IF connParams.listenPort > 0
              THEN Append(s1, <<"port", Itoa(connParams.listenPort)>>)
              ELSE s1
        s3 == s2 \o <<<<"user", username>>, <<"dbname", defaultPgbouncerDbname>>>>
    IN IF password # "" THEN Append(s3, <<"password", password>>) ELSE s3

----------------------------------------------------------------------------
(* Engine metadata *)

ZeroParams ==
    [pid |-> 0, datadirPath |-> "", startTs |-> 0, unixSocketDirPath |-> "",
     listenAddr |-> "", listenPort |-> 0]

\* parsePostgresProcessCmdline: the word after the first "-D" that has one.
parsePostgresProcessCmdline(cmdline) ==
    LET hits == {i \in 1..Len(cmdline) : cmdline[i] = "-D" /\ Len(cmdline) > i}
    IN IF hits = {} THEN [ok |-> FALSE, path |-> ""]
       ELSE [ok |-> TRUE,
             path |-> cmdline[(CHOOSE i \in hits : \A j \in hits : i <= j) + 1]]

\* One step of the line loop of newPostgresConnectionParams: line number i
\* (from 0) applied to the parameters read so far.
RECURSIVE pidFileLines(_, _, _)
pidFileLines(content, i, p) ==
    IF i >= Len(content) THEN [ok |-> TRUE, p |-> p]
    ELSE LET line == content[i + 1]
             num == Atoi(line)
         IN CASE i = 0 -> IF num.ok
                          THEN pidFileLines(content, i + 1, [p EXCEPT !.pid = num.n])
                          ELSE [ok |-> FALSE, p |-> p]
              [] i = 1 -> pidFileLines(content, i + 1, [p EXCEPT !.datadirPath = line])
              [] i = 2 -> IF num.ok
                          THEN pidFileLines(content, i + 1, [p EXCEPT !.startTs = num.n])
                          ELSE [ok |-> FALSE, p |-> p]
              [] i = 3 -> IF num.ok
                          THEN pidFileLines(content, i + 1, [p EXCEPT !.listenPort = num.n])
                          ELSE [ok |-> FALSE, p |-> p]
              [] i = 4 -> pidFileLines(content, i + 1,
                                       [p EXCEPT !.unixSocketDirPath = line])
              [] i = 5 -> pidFileLines(content, i + 1,
                              [p EXCEPT !.listenAddr =
                                  IF line = "*" THEN defaultHost ELSE line])
              [] OTHER -> pidFileLines(content, i + 1, p)

\* A reader that takes the listen address line as it is.
newPostgresConnectionParamsVerbatim(file) ==
    LET r == IF ~file.ok THEN [ok |-> FALSE, p |-> ZeroParams]
             ELSE pidFileLines(file.content, 0, ZeroParams)
    IN IF r.ok /\ Len(file.content) >= 6
       THEN [r EXCEPT !.p.listenAddr = file.content[6]]
       ELSE r

\* newPostgresConnectionParams after os.ReadFile has returned file.
newPostgresConnectionParamsFrom(file) ==
    IF ~file.ok THEN [ok |-> FALSE, p |-> ZeroParams]
    ELSE pidFileLines(file.content, 0, ZeroParams)

newPostgresConnectionParams(pidFilePath) ==
    newPostgresConnectionParamsFrom(ReadFile(pidFilePath))

\* strings.HasPrefix(s, "-") on the words that occur in command lines
HasDashPrefix(s) == s \in {"-d", "-D", "-q", "-v", "-R", "-u"}

\* parsePgbouncerCmdline: the first word after the executable that is no flag.
parsePgbouncerCmdline(cmdline) ==
    LET hits == {i \in 2..Len(cmdline) : ~HasDashPrefix(cmdline[i])}
    IN IF hits = {} THEN ""
       ELSE cmdline[CHOOSE i \in hits : \A j \in hits : i <= j]

\* strings.Replace(line, " ", "", -1)
RemoveSpaces(line) == SelectSeq(line, LAMBDA c : c # " ")

\* strings.Split(s, sep): the pieces of s between the occurrences of sep.
Split(s, sep) ==
    LET hits == SelectSeq([i \in 1..Len(s) |-> i], LAMBDA i : s[i] = sep)
    IN [k \in 1..(Len(hits) + 1) |->
           SubSeq(s, IF k = 1 THEN 1 ELSE hits[k - 1] + 1,
                     IF k > Len(hits) THEN Len(s) ELSE hits[k] - 1)]

\* The string made of the pieces of s from index i.
RECURSIVE JoinFrom(_, _)
JoinFrom(s, i) == IF i > Len(s) THEN "" ELSE s[i] \o JoinFrom(s, i + 1)

Join(s) == JoinFrom(s, 1)

\* The scanner loop of parsePgbouncerIniFile from line i.
RECURSIVE iniFileLines(_, _, _)
iniFileLines(lines, i, p) ==
    IF i > Len(lines) THEN [ok |-> TRUE, p |-> p]
    ELSE LET line == lines[i]
             vals == Split(RemoveSpaces(line), "=")
             paramName == Join(vals[1])
             paramValue == vals[2]
             addr == Join(Split(paramValue, ",")[1])
             port == Atoi(Join(paramValue))
         IN IF line = <<>> \/ Head(line) \in {";", "#"}
            THEN iniFileLines(lines, i + 1, p)
            ELSE IF Len(vals) # 2
            THEN iniFileLines(lines, i + 1, p)
            ELSE CASE paramName = "listen_addr" ->
                        iniFileLines(lines, i + 1,
                            [p EXCEPT !.listenAddr =
                                IF addr = "*" THEN defaultHost ELSE addr])
                   [] paramName = "listen_port" ->
                        IF port.ok
                        THEN iniFileLines(lines, i + 1,
                                          [p EXCEPT !.listenPort = port.n])
                        ELSE [ok |-> FALSE, p |-> ZeroParams]
                   [] paramName = "unix_socket_dir" ->
                        iniFileLines(lines, i + 1,
                            [p EXCEPT !.unixSocketDirPath = Join(paramValue)])
                   [] OTHER -> iniFileLines(lines, i + 1, p)

\* parsePgbouncerIniFile after os.Open has returned file.
parsePgbouncerIniFileFrom(file) ==
    LET r == iniFileLines(file.content, 1, ZeroParams)
        p1 == IF r.p.unixSocketDirPath = ""
              THEN [r.p EXCEPT !.unixSocketDirPath = "/tmp"] ELSE r.p
        p2 == IF p1.listenPort = 0
              THEN [p1 EXCEPT !.listenPort = defaultPgbouncerPort] ELSE p1
    IN IF ~file.ok \/ ~r.ok THEN [ok |-> FALSE, p |-> ZeroParams]
       ELSE [ok |-> TRUE, p |-> p2]

parsePgbouncerIniFile(iniFilePath) ==
    parsePgbouncerIniFileFrom(ReadFile(iniFilePath))

----------------------------------------------------------------------------
(* Discovery of one process: [ok, s], ok = FALSE for a returned error. *)

\* A ServiceID that carries the listen address between type and port.
discoveredServiceIDWithHost(type, connParams) ==
    type \o ":" \o "127.0.0.1" \o ":" \o Itoa(connParams.listenPort)

\* The ServiceID given to a discovered service of the given type.
discoveredServiceID(type, connParams) ==
    type \o ":" \o Itoa(connParams.listenPort)

\* A probe loop that tries every transport, whatever the probes return.
RECURSIVE probeLoopNoBreak(_, _, _, _, _)
probeLoopNoBreak(e, connParams, defaults, transports, i) ==
    IF i > Len(transports) THEN <<>>
    ELSE LET connString == newPostgresConnectionString(connParams, defaults,
                                                       transports[i])
         IN <<[unix |-> transports[i], connString |-> connString,
               ok |-> attemptConnect(e, connString)]>>
                \o probeLoopNoBreak(e, connParams, defaults, transports, i + 1)

\* The loop of discoverPostgres over the transports from index i: the
\* probes it makes, in order, each with its transport, its connection
\* string and whether attemptConnect returned nil.
RECURSIVE probeLoop(_, _, _, _, _)
probeLoop(e, connParams, defaults, transports, i) ==
    IF i > Len(transports) THEN <<>>
    ELSE LET connString == newPostgresConnectionString(connParams, defaults,
                                                       transports[i])
             ok == attemptConnect(e, connString)
         IN <<[unix |-> transports[i], connString |-> connString, ok |-> ok]>>
                \o (IF ok THEN <<>>
                    ELSE probeLoop(e, connParams, defaults, transports, i + 1))

\* discoverPostgres after the command line and the pidfile are parsed;
\* probes are the connections it attempted.
discoverPostgresWith(e, datadirCmdPath, connParams, cfg) ==
    LET probes == probeLoop(e, connParams.p, cfg.ConnDefaults, <<TRUE, FALSE>>, 1)
        \* the loop over {true, false} leaves the last string tried
        connString == probes[Len(probes)].connString
    IN IF ~datadirCmdPath.ok \/ ~connParams.ok
       THEN [ok |-> FALSE, s |-> ZeroService, probes |-> <<>>]
       ELSE [ok |-> TRUE,
             s |-> [ServiceID |-> discoveredServiceID(ServiceTypePostgresql,
                                                      connParams.p),
                    ConnSettings |-> [ServiceType |-> ServiceTypePostgresql,
                                      Conninfo |-> connString],
                    Collector |-> NoCollector,
                    TotalErrors |-> 0],
             probes |-> probes]

discoverPostgres(e, proc, cfg) ==
    LET datadirCmdPath == parsePostgresProcessCmdline(proc.cmdline)
    IN discoverPostgresWith(e, datadirCmdPath,
           newPostgresConnectionParams(datadirCmdPath.path \o "/postmaster.pid"),
           cfg)

discoverPgbouncer(e, proc, cfg) ==
    LET configFilePath == parsePgbouncerCmdline(proc.cmdline)
        connParams == parsePgbouncerIniFile(configFilePath)
        connString == newPgbouncerConnectionString(connParams.p, cfg.ConnDefaults)
    IN IF Len(proc.cmdline) = 0 \/ ~connParams.ok \/ ~attemptConnect(e, connString)
       THEN [ok |-> FALSE, s |-> ZeroService]
       ELSE [ok |-> TRUE,
             s |-> [ServiceID |-> discoveredServiceID(ServiceTypePgbouncer,
                                                      connParams.p),
                    ConnSettings |-> [ServiceType |-> ServiceTypePgbouncer,
                                      Conninfo |-> connString],
                    Collector |-> NoCollector,
                    TotalErrors |-> 0]]

\* An add without the test: the discovered service replaces the record.
admitAlways(S, s) == addService(S, s.ServiceID, s)

\* The test-and-add of lookupServices for a discovered service s.
admit(S, s) ==
    IF getService(S, s.ServiceID).ServiceID = s.ServiceID
    THEN S
    ELSE addService(S, s.ServiceID, s)

\* A pid loop body that has no case for the pooler.
lookupOnePostgresOnly(S, e, pid, cfg) ==
    LET proc == Processes[pid]
    IN IF proc.err = "" /\ proc.name = "postgres" /\ proc.ppid = 1
       THEN With(discoverPostgres(e, proc, cfg),
                 LAMBDA postgres :
                     IF postgres.ok THEN admit(S, postgres.s) ELSE S)
       ELSE S

\* The body of the pid loop of lookupServices for one pid.
lookupOne(S, e, pid, cfg) ==
    LET proc == Processes[pid]
    IN CASE proc.err # "" -> S
         [] proc.name = "postgres" ->
                IF proc.ppid = 1
                THEN With(discoverPostgres(e, proc, cfg),
                          LAMBDA postgres :
                              IF postgres.ok THEN admit(S, postgres.s) ELSE S)
                ELSE S
         [] proc.name = "pgbouncer" ->
                With(discoverPgbouncer(e, proc, cfg),
                     LAMBDA pgbouncer :
                         IF pgbouncer.ok THEN admit(S, pgbouncer.s) ELSE S)
         [] OTHER -> S

\* The pid loop of lookupServices from index i of the pid list.
RECURSIVE lookupLoop(_, _, _, _, _)
lookupLoop(S, e, pids, i, cfg) ==
    IF i > Len(pids) THEN S
    ELSE With(lookupOne(S, e, pids[i], cfg),
              LAMBDA T : lookupLoop(T, e, pids, i + 1, cfg))

\* lookupServices with a successful process.Pids()
lookupServices(S, e, cfg) == lookupLoop(S, e, Pids(e), 1, cfg)

----------------------------------------------------------------------------
(* Static configuration *)

\* The loop of addServicesFromConfig over config.ConnSettings from index i:
\* the addService calls it makes, in order, each as [key, s].
RECURSIVE configLoop(_, _, _)
configLoop(e, settings, i) ==
    IF i > Len(settings) THEN <<>>
    ELSE LET cs == settings[i]
             pgconfig == ParseConfig(cs.Conninfo)
             s == [ServiceID |-> cs.ServiceType \o ":" \o Itoa(pgconfig.Port),
                   ConnSettings |-> cs,
                   Collector |-> NoCollector,
                   TotalErrors |-> 0]
             key == cs.ServiceType \o ":" \o pgconfig.Host \o ":" \o Itoa(pgconfig.Port)
         IN IF ~pgconfig.ok \/ ~Connects(e, pgconfig)
            THEN configLoop(e, settings, i + 1)
            ELSE <<[key |-> key, s |-> s]>> \o configLoop(e, settings, i + 1)

\* A bootstrap whose loop ends after the first configured service.
configAddsFirstOnly(e, cfg) ==
    <<[key |-> "system:0", s |-> SystemService]>>
        \o configLoop(e, IF cfg.ConnSettings = <<>> THEN <<>>
                          ELSE <<cfg.ConnSettings[1]>>, 1)

\* The addService calls of addServicesFromConfig: system:0, then the loop.
configAdds(e, cfg) ==
    <<[key |-> "system:0", s |-> SystemService]>>
        \o configLoop(e, cfg.ConnSettings, 1)

\* The map after the addService calls adds from index i.
RECURSIVE addAll(_, _, _)
addAll(S, adds, i) ==
    IF i > Len(adds) THEN S
    ELSE addAll(addService(S, adds[i].key, adds[i].s), adds, i + 1)

addServicesFromConfig(S, e, cfg) == addAll(S, configAdds(e, cfg), 1)

----------------------------------------------------------------------------
(* Collector attachment *)

\* A registerer that accepts a collector whatever is registered.
RegisterAny(reg, c) == [ok |-> TRUE, reg |-> reg \cup {c}]

\* prometheus.MustRegister: [ok, reg]; ok = FALSE is the panic raised when
\* a collector with the same descriptors (the same sid) is registered.
MustRegister(reg, c) ==
    IF \E r \in reg : r.sid = c.sid
    THEN [ok |-> FALSE, reg |-> reg]
    ELSE [ok |-> TRUE, reg |-> reg \cup {c}]

\* prometheus.Unregister
Unregister(reg, c) == reg \ {c}

\* collector.NewPostgresServiceConfig: TRUE iff it returns no error; it
\* opens a connection with the string to read the engine's settings.
NewPostgresServiceConfig(e, connString) == attemptConnect(e, connString)

\* Collector objects are named by their service id and their rank among
\* the collectors built for that id; next counts the collectors built.
Built(next, sid) == IF sid \in DOMAIN next THEN next[sid] ELSE 0

Count(next, mc) ==
    [s \in DOMAIN next \cup {mc.sid} |-> IF s = mc.sid THEN mc.n ELSE next[s]]

\* An attachment that does not look whether the record has a collector.
setupOneAlways(st, e, id, failKey) ==
    LET service == getService(st.S, id)
        type == service.ConnSettings.ServiceType
        mc == [sid |-> service.ServiceID, n |-> Built(st.next, service.ServiceID) + 1]
        r == MustRegister(st.reg, mc)
    IN IF type \notin {ServiceTypeSystem, ServiceTypePostgresql, ServiceTypePgbouncer}
       THEN st
       ELSE IF type = ServiceTypePostgresql
               /\ ~NewPostgresServiceConfig(e, service.ConnSettings.Conninfo)
       THEN st
       ELSE IF id = failKey
       THEN [st EXCEPT !.outcome = "error"]
       ELSE IF ~r.ok
       THEN [st EXCEPT !.next = Count(st.next, mc), !.outcome = "panic"]
       ELSE [S |-> addService(st.S, id, [service EXCEPT !.Collector = mc]),
             reg |-> r.reg,
             next |-> Count(st.next, mc),
             outcome |-> "ok"]

\* One id of the loop of setupServices.  st = [S, reg, next, outcome];
\* failKey is the key whose collector cannot be built in this pass.
setupOne(st, e, id, failKey) ==
    LET service == getService(st.S, id)
        type == service.ConnSettings.ServiceType
        mc == [sid |-> service.ServiceID, n |-> Built(st.next, service.ServiceID) + 1]
        r == MustRegister(st.reg, mc)
    IN IF service.Collector # NoCollector THEN st
       ELSE IF type \notin {ServiceTypeSystem, ServiceTypePostgresql, ServiceTypePgbouncer}
       THEN st
       ELSE IF type = ServiceTypePostgresql
               /\ ~NewPostgresServiceConfig(e, service.ConnSettings.Conninfo)
       THEN st
       ELSE IF id = failKey
       THEN [st EXCEPT !.outcome = "error"]
       ELSE IF ~r.ok
       THEN [st EXCEPT !.next = Count(st.next, mc), !.outcome = "panic"]
       ELSE [S |-> addService(st.S, id, [service EXCEPT !.Collector = mc]),
             reg |-> r.reg,
             next |-> Count(st.next, mc),
             outcome |-> "ok"]

\* The keys of the records without a collector.  The loop of setupServices
\* passes over every other id without effect, so the order of a snapshot
\* matters only among these.
Pending(S) == {k \in DOMAIN S : S[k].Collector = NoCollector}

\* The id snapshots of setupServices, up to the places of the ids it skips.
setupOrders(S) ==
    {o \o (CHOOSE r \in getServiceIDs([k \in DOMAIN S \ Pending(S) |-> S[k]]) : TRUE) :
        o \in getServiceIDs([k \in Pending(S) |-> S[k]])}

\* setupServices over the id snapshot ids from index i; stops at the first
\* returned error or panic.
RECURSIVE setupLoop(_, _, _, _, _)
setupLoop(st, e, ids, i, failKey) ==
    IF i > Len(ids) \/ st.outcome # "ok" THEN st
    ELSE setupLoop(setupOne(st, e, ids[i], failKey), e, ids, i + 1, failKey)

setupServices(S, reg, next, e, ids, failKey) ==
    setupLoop([S |-> S, reg |-> reg, next |-> next, outcome |-> "ok"],
              e, ids, 1, failKey)

----------------------------------------------------------------------------
(* Health check *)

\* A health check that probes every record, the system one included.
IsRemoteAny(s) == TRUE

IsRemote(s) ==
    s.ConnSettings.ServiceType \in {ServiceTypePostgresql, ServiceTypePgbouncer}

\* A health check that compares the counter with the threshold before the
\* increment: it stores the value the threshold and evicts one probe later.
healthcheckOneLate(st, e, id) ==
    LET service == getService(st.S, id)
        totalErrors == getServiceStatus(st.S, id)
    IN IF ~IsRemote(service) THEN st
       ELSE IF attemptConnect(e, service.ConnSettings.Conninfo) THEN st
       ELSE IF totalErrors < errorThreshold
       THEN [st EXCEPT !.S = markServiceFailed(st.S, id)]
       ELSE [S |-> removeService(st.S, id),
             reg |-> IF getService(st.S, id).Collector # NoCollector
                     THEN Unregister(st.reg, getService(st.S, id).Collector)
                     ELSE st.reg]

\* One id of the loop of healthcheckServices.  st = [S, reg].
healthcheckOne(st, e, id) ==
    LET service == getService(st.S, id)
        totalErrors == getServiceStatus(st.S, id)
    IN IF ~IsRemote(service) THEN st
       ELSE IF attemptConnect(e, service.ConnSettings.Conninfo) THEN st
       ELSE IF totalErrors + 1 < errorThreshold
       THEN [st EXCEPT !.S = markServiceFailed(st.S, id)]
       ELSE [S |-> removeService(st.S, id),
             reg |-> IF getService(st.S, id).Collector # NoCollector
                     THEN Unregister(st.reg, getService(st.S, id).Collector)
                     ELSE st.reg]

RECURSIVE healthcheckLoop(_, _, _, _)
healthcheckLoop(st, e, ids, i) ==
    IF i > Len(ids) THEN st
    ELSE healthcheckLoop(healthcheckOne(st, e, ids[i]), e, ids, i + 1)

healthcheckServices(S, reg, e, ids) ==
    healthcheckLoop([S |-> S, reg |-> reg], e, ids, 1)

----------------------------------------------------------------------------
(* Inputs *)

cfgA == [ServiceType |-> ServiceTypePostgresql,
         Conninfo |-> <<<<"host", "127.0.0.1">>, <<"port", "5432">>,
                        <<"user", "pgscv">>, <<"dbname", "postgres">>>>]

cfgB == [ServiceType |-> ServiceTypePostgresql,
         Conninfo |-> <<<<"host", "10.0.0.1">>, <<"port", "5432">>,
                        <<"user", "pgscv">>, <<"dbname", "postgres">>>>]

cfgBad == [ServiceType |-> ServiceTypePostgresql,
           Conninfo |-> <<<<"invalid">>>>]

NoDefaults == [k \in {} |-> ""]

\* The lists of services a configuration file gives.
ConnSettingsInputs == {<<>>, <<cfgA>>, <<cfgA, cfgB>>, <<cfgBad, cfgB>>}

\* streak extended to the keys of S: a key not tracked so far starts at 0.
Track(sk, S) == [k \in DOMAIN S |-> IF k \in DOMAIN sk THEN sk[k] ELSE 0]

----------------------------------------------------------------------------
(* Goroutines and the lock *)

\* procfs.CPUStat{}: of its ten counters Idle, and User for each of the
\* nine others, which updateCPUStats treats alike.
ZeroCPUStat == [Idle |-> 0, User |-> 0]

\* The cpuCollector as NewCPUCollector returns it.
NewCPUCollector == [cpuStats |-> <<>>, cpuStatsSum |-> ZeroCPUStat]

\* The goroutines that call Update of the collector: the registry gathers
\* for concurrent scrape requests.
Scrapers == {"scrape1", "scrape2"}

\* No goroutine is in updateStat.
NoScrape ==
    [mutex |-> "",
     of |-> [g \in Scrapers |->
                [at |-> "idle", stats |-> <<>>, sent |-> <<>>, from |-> <<>>,
                 calls |-> 0]]]

\* No probe has run.
NoConns ==
    [open |-> {}, opened |-> 0, at |-> "idle", site |-> "", connString |-> <<>>,
     db |-> 0, results |-> <<>>]

\* No function called on its own.
NoRet == [fn |-> "", in |-> <<>>, out |-> <<>>]

\* The goroutine of the discovery loop and a goroutine that calls the
\* exported methods of the repository.
Tasks == {"loop", "caller"}

\* The zero value of sync.RWMutex.
Unlocked == [w |-> "none", r |-> {}]

\* A goroutine before operation op (not yet in it) and in it.
Outside(op) == [op |-> op, in |-> FALSE]
Inside(op) == [op |-> op, in |-> TRUE]

NoLocals == [ids |-> <<>>, id |-> "", service |-> ZeroService, totalErrors |-> 0]
NoCall == [id |-> "", adds |-> <<>>, calls |-> 0, ids |-> <<>>,
           service |-> ZeroService]

----------------------------------------------------------------------------
(* The program *)

Init ==
    /\ Services = [k \in {} |-> ZeroService]
    /\ registered = {}
    /\ created = [s \in {} |-> 0]
    /\ pc = "init"
    /\ ticked = FALSE
    /\ cancelled = FALSE
    /\ env \in EnvStates
    /\ config = [ConnDefaults |-> NoDefaults]
    /\ streak = [k \in {} |-> 0]
    /\ evicted = {}
    /\ mu = Unlocked
    /\ at = [t \in Tasks |-> Outside("")]
    /\ hc = NoLocals
    /\ call = NoCall
    /\ ret = NoRet
    /\ cpuCollector = NewCPUCollector
    /\ scrape = NoScrape
    /\ conns = NoConns

\* Repository.AddServicesFromConfig, called before the discovery loop.
AddServicesFromConfig ==
    /\ pc = "init"
    /\ \E settings \in ConnSettingsInputs :
         Services' = addServicesFromConfig(Services, env,
                         [ConnSettings |-> settings,
                          ConnDefaults |-> config.ConnDefaults])
    /\ streak' = Track(streak, Services')
    /\ pc' = "boot"
    /\ UNCHANGED conc
    /\ UNCHANGED <<registered, created, ticked, cancelled, env, config, ret,
                   evicted,
                   cpuCollector, scrape, conns>>

\* Repository.SetupServices, called after the bootstrap from configuration.
SetupServices ==
    /\ pc = "boot"
    /\ \E ids \in setupOrders(Services), failKey \in Pending(Services) \cup {""} :
         LET st == setupServices(Services, registered, created, env, ids, failKey)
         IN /\ \A s \in DOMAIN st.next : st.next[s] <= MaxCollectors
            /\ Services' = st.S
            /\ registered' = st.reg
            /\ created' = st.next
            /\ pc' = IF st.outcome = "panic" THEN "crashed" ELSE "ready"
    /\ UNCHANGED conc
    /\ UNCHANGED <<ticked, cancelled, env, config, ret, streak, evicted,
                   cpuCollector, scrape, conns>>

\* Repository.StartBackgroundDiscovery up to the loop.
StartBackgroundDiscovery ==
    /\ pc \in {"init", "boot", "ready"}
    /\ Services' = addService(Services, "system:0", SystemService)
    /\ streak' = Track(streak, Services')
    /\ pc' = "lookup"
    /\ UNCHANGED conc
    /\ UNCHANGED <<registered, created, ticked, cancelled, env, config, ret,
                   evicted,
                   cpuCollector, scrape, conns>>

\* The loop: repo.lookupServices(config); process.Pids() may fail.
LoopLookup ==
    /\ pc = "lookup"
    /\ \E pidsOK \in BOOLEAN :
         IF pidsOK
         THEN /\ Services' = lookupServices(Services, env, config)
              /\ pc' = "setup"
         ELSE /\ Services' = Services
              /\ pc' = "skipLookup"
    /\ streak' = Track(streak, Services')
    /\ UNCHANGED conc
    /\ UNCHANGED <<registered, created, ticked, cancelled, env, config, ret,
                   evicted,
                   cpuCollector, scrape, conns>>

\* The loop: repo.setupServices(config)
LoopSetup ==
    /\ pc = "setup"
    /\ \E ids \in setupOrders(Services), failKey \in Pending(Services) \cup {""} :
         LET st == setupServices(Services, registered, created, env, ids, failKey)
         IN /\ \A s \in DOMAIN st.next : st.next[s] <= MaxCollectors
            /\ Services' = st.S
            /\ registered' = st.reg
            /\ created' = st.next
            /\ pc' = CASE st.outcome = "panic" -> "crashed"
                       [] st.outcome = "error" -> "skipSetup"
                       [] OTHER -> "health"
    /\ UNCHANGED conc
    /\ UNCHANGED <<ticked, cancelled, env, config, ret, streak, evicted,
                   cpuCollector, scrape, conns>>

\* The loop: log the error and continue with the next iteration.
LoopSkip ==
    /\ pc \in {"skipLookup", "skipSetup"}
    /\ pc' = "lookup"
    /\ UNCHANGED conc
    /\ UNCHANGED <<Services, registered, created, ticked, cancelled, env,
                   config, ret, streak, evicted,
                   cpuCollector, scrape, conns>>

\* The loop: repo.healthcheckServices().  The ids are taken in one order:
\* an iteration reads and writes the record of its own id only, so the
\* result is the same for every order of the snapshot.
LoopHealthcheck ==
    /\ pc = "health"
    /\ LET ids == CHOOSE s \in getServiceIDs(Services) : TRUE
           st == healthcheckServices(Services, registered, env, ids)
       IN /\ Services' = st.S
          /\ registered' = st.reg
    /\ streak' = [k \in DOMAIN Services' |->
                    IF ~IsRemote(Services[k]) THEN streak[k]
                    ELSE IF attemptConnect(env, Services[k].ConnSettings.Conninfo)
                    THEN 0 ELSE streak[k] + 1]
    /\ evicted' = {[key |-> k, sid |-> Services[k].ServiceID,
                    conn |-> Services[k].ConnSettings.Conninfo,
                    old |-> Services[k].Collector] :
                        k \in DOMAIN Services \ DOMAIN Services'}
    /\ ticked' = TRUE
    /\ pc' = "sleep"
    /\ UNCHANGED conc
    /\ UNCHANGED <<created, cancelled, env, config, ret,
                   cpuCollector, scrape, conns>>

\* The loop: the select on the 60 s timer and ctx.Done()
LoopSleep ==
    /\ pc = "sleep"
    /\ pc' = IF cancelled THEN "done" ELSE "lookup"
    /\ UNCHANGED conc
    /\ UNCHANGED <<Services, registered, created, ticked, cancelled, env,
                   config, ret, streak, evicted,
                   cpuCollector, scrape, conns>>

\* cancel() of the context, by the signal handler.  The loop looks at the
\* context only in its select, so a cancellation is taken to arrive while
\* the loop sleeps.
Cancel ==
    /\ pc = "sleep"
    /\ ~cancelled
    /\ cancelled' = TRUE
    /\ UNCHANGED conc
    /\ UNCHANGED <<Services, registered, created, pc, ticked, env, config, ret,
                   streak, evicted,
                   cpuCollector, scrape, conns>>

\* The host changes while the loop sleeps: one engine starts, stops,
\* begins or ceases to accept connections.  The pooler keeps the state it
\* has at the start.
EnvChange ==
    /\ pc = "sleep"
    /\ \E e \in EnvStates :
         /\ Cardinality({f \in DOMAIN env : e[f] # env[f]}) = 1
         /\ e.bouncer = env.bouncer
         /\ env' = e
    /\ UNCHANGED conc
    /\ UNCHANGED <<Services, registered, created, pc, ticked, cancelled,
                   config, ret, streak, evicted,
                   cpuCollector, scrape, conns>>

Next ==
    \/ AddServicesFromConfig
    \/ SetupServices
    \/ StartBackgroundDiscovery
    \/ LoopLookup
    \/ LoopSetup
    \/ LoopSkip
    \/ LoopHealthcheck
    \/ LoopSleep
    \/ Cancel
    \/ EnvChange

Spec == Init /\ [][Next]_vars

\* The program on a host that does not change.
NextStable ==
    \/ AddServicesFromConfig
    \/ SetupServices
    \/ StartBackgroundDiscovery
    \/ LoopLookup
    \/ LoopSetup
    \/ LoopSkip
    \/ LoopHealthcheck
    \/ LoopSleep
    \/ Cancel

SpecStable == Init /\ [][NextStable]_vars

\* cancel() of the context at any moment of the loop.
CancelAnytime ==
    /\ pc \in {"lookup", "setup", "skipLookup", "skipSetup", "health", "sleep"}
    /\ ~cancelled
    /\ cancelled' = TRUE
    /\ UNCHANGED conc
    /\ UNCHANGED <<Services, registered, created, pc, ticked, env, config, ret,
                   streak, evicted,
                   cpuCollector, scrape, conns>>

\* The program on a host that does not change, cancelled at any moment.
NextCancel ==
    \/ AddServicesFromConfig
    \/ SetupServices
    \/ StartBackgroundDiscovery
    \/ LoopLookup
    \/ LoopSetup
    \/ LoopSkip
    \/ LoopHealthcheck
    \/ LoopSleep
    \/ CancelAnytime

\* The goroutine of the loop takes every step it can take; setupServices
\* and healthcheckServices, loops over a finite list of ids, return.
SpecCancel ==
    /\ Init
    /\ [][NextCancel]_vars
    /\ WF_vars(StartBackgroundDiscovery)
    /\ WF_vars(LoopLookup)
    /\ WF_vars(LoopSkip)
    /\ WF_vars(LoopSleep)
    /\ []<>(pc # "setup")
    /\ []<>(pc # "health")

----------------------------------------------------------------------------
(* healthcheckServices and the exported methods, statement by statement *)

\* The methods that read the map under RLock and those that write it under
\* Lock.
ReadOps == {"totalServices", "getServiceIDs", "getService", "getServiceStatus"}
WriteOps == {"addService", "markServiceFailed", "removeService"}

\* The records of the registry with the failure counter of every engine
\* record set to n.
WithErrors(S, n) ==
    [k \in DOMAIN S |->
        IF S[k].ConnSettings.ServiceType = ServiceTypePostgresql
        THEN [S[k] EXCEPT !.TotalErrors = n]
        ELSE S[k]]

\* The loop goroutine is about to run healthcheckServices on a registry
\* that discovery and attachment built on host e0, whose engines failed n
\* health checks since; another goroutine is about to call exported methods.
InitConc ==
    /\ pc = "conc"
    /\ \E e0 \in EnvStates, n \in {0, errorThreshold - 1} :
         LET S0 == lookupServices(addService([k \in {} |-> ZeroService],
                                             "system:0", SystemService),
                                  e0, [ConnDefaults |-> NoDefaults])
             st == setupServices(S0, {}, [s \in {} |-> 0], e0,
                                 CHOOSE o \in setupOrders(S0) : TRUE, "")
         IN /\ Services = WithErrors(st.S, n)
            /\ registered = st.reg
            /\ created = st.next
            /\ env \in {e \in EnvStates : e.bouncer = e0.bouncer}
    /\ ticked = FALSE
    /\ cancelled = FALSE
    /\ config = [ConnDefaults |-> NoDefaults]
    /\ streak = [k \in {} |-> 0]
    /\ evicted = {}
    /\ mu = Unlocked
    /\ at = [t \in Tasks |->
                IF t = "loop" THEN Outside("totalServices") ELSE Outside("idle")]
    /\ hc = NoLocals
    /\ call = NoCall
    /\ ret = NoRet
    /\ cpuCollector = NewCPUCollector
    /\ scrape = NoScrape
    /\ conns = NoConns

\* repo.RLock() of a reading method
RLock(t) ==
    /\ pc = "conc"
    /\ at[t].op \in ReadOps
    /\ ~at[t].in
    /\ mu.w = "none"
    /\ mu' = [mu EXCEPT !.r = @ \cup {t}]
    /\ at' = [at EXCEPT ![t] = Inside(at[t].op)]
    /\ UNCHANGED <<Services, registered, created, pc, ticked, cancelled, env,
                   config, ret, streak, evicted, hc, call,
                   cpuCollector, scrape, conns>>

\* repo.Lock() of a writing method
Lock(t) ==
    /\ pc = "conc"
    /\ at[t].op \in WriteOps
    /\ ~at[t].in
    /\ mu.w = "none"
    /\ mu.r = {}
    /\ mu' = [mu EXCEPT !.w = t]
    /\ at' = [at EXCEPT ![t] = Inside(at[t].op)]
    /\ UNCHANGED <<Services, registered, created, pc, ticked, cancelled, env,
                   config, ret, streak, evicted, hc, call,
                   cpuCollector, scrape, conns>>

\* The lock after repo.RUnlock() and after repo.Unlock() of goroutine t.
RUnlock(t) == [mu EXCEPT !.r = @ \ {t}]
Unlock(t) == [mu EXCEPT !.w = "none"]

\* healthcheckServices goes on to the next id of its snapshot, or returns.
NextID(h) ==
    IF h.ids = <<>>
    THEN [at |-> Outside("done"), hc |-> h]
    ELSE [at |-> Outside("getService"),
          hc |-> [h EXCEPT !.id = Head(h.ids), !.ids = Tail(h.ids)]]

\* getServiceIDs: repo.totalServices() for the capacity of the slice
HcTotalServices ==
    /\ pc = "conc"
    /\ at["loop"] = Inside("totalServices")
    /\ mu' = RUnlock("loop")
    /\ at' = [at EXCEPT !["loop"] = Outside("getServiceIDs")]
    /\ UNCHANGED <<Services, registered, created, pc, ticked, cancelled, env,
                   config, ret, streak, evicted, hc, call,
                   cpuCollector, scrape, conns>>

\* getServiceIDs: the range over the map, in the order the map gives
HcGetServiceIDs ==
    /\ pc = "conc"
    /\ at["loop"] = Inside("getServiceIDs")
    /\ \E ids \in getServiceIDs(Services) :
         LET nxt == NextID([hc EXCEPT !.ids = ids])
         IN /\ hc' = nxt.hc
            /\ at' = [at EXCEPT !["loop"] = nxt.at]
    /\ mu' = RUnlock("loop")
    /\ UNCHANGED <<Services, registered, created, pc, ticked, cancelled, env,
                   config, ret, streak, evicted, call,
                   cpuCollector, scrape, conns>>

\* var service = repo.getService(id) and the switch on its type
HcGetService ==
    /\ pc = "conc"
    /\ at["loop"] = Inside("getService")
    /\ LET service == getService(Services, hc.id)
           nxt == NextID(hc)
       IN IF IsRemote(service)
          THEN /\ hc' = [hc EXCEPT !.service = service]
               /\ at' = [at EXCEPT !["loop"] = Outside("getServiceStatus")]
          ELSE /\ hc' = nxt.hc
               /\ at' = [at EXCEPT !["loop"] = nxt.at]
    /\ mu' = RUnlock("loop")
    /\ UNCHANGED <<Services, registered, created, pc, ticked, cancelled, env,
                   config, ret, streak, evicted, call,
                   cpuCollector, scrape, conns>>

\* totalErrors := repo.getServiceStatus(id), the probe and the branch on
\* its result
HcGetServiceStatus ==
    /\ pc = "conc"
    /\ at["loop"] = Inside("getServiceStatus")
    /\ LET totalErrors == getServiceStatus(Services, hc.id) + 1
           nxt == NextID(hc)
       IN IF attemptConnect(env, hc.service.ConnSettings.Conninfo)
          THEN /\ hc' = nxt.hc
               /\ at' = [at EXCEPT !["loop"] = nxt.at]
          ELSE /\ hc' = [hc EXCEPT !.totalErrors = totalErrors]
               /\ at' = [at EXCEPT !["loop"] =
                            IF totalErrors < errorThreshold
                            THEN Outside("markServiceFailed")
                            ELSE Inside("Services[id].Collector != nil")]
    /\ mu' = RUnlock("loop")
    /\ UNCHANGED <<Services, registered, created, pc, ticked, cancelled, env,
                   config, ret, streak, evicted, call,
                   cpuCollector, scrape, conns>>

\* repo.markServiceFailed(id)
HcMarkServiceFailed ==
    /\ pc = "conc"
    /\ at["loop"] = Inside("markServiceFailed")
    /\ Services' = markServiceFailed(Services, hc.id)
    /\ mu' = Unlock("loop")
    /\ LET nxt == NextID(hc)
       IN /\ hc' = nxt.hc
          /\ at' = [at EXCEPT !["loop"] = nxt.at]
    /\ UNCHANGED <<registered, created, pc, ticked, cancelled, env, config, ret,
                   streak, evicted, call,
                   cpuCollector, scrape, conns>>

\* The outcomes of a map read made without the lock: the value of the
\* map, or, when a goroutine is inside a writing method, also the fatal
\* error of the runtime for a concurrent map read and map write.
BareRead == IF mu.w = "none" THEN {"value"} ELSE {"value", "fatal"}

\* A check that goes on to removeService whatever the record holds.
HcCollectorNotNilThenRemove ==
    /\ pc = "conc"
    /\ at["loop"] = Inside("Services[id].Collector != nil")
    /\ \E outcome \in BareRead :
         at' = IF outcome = "fatal"
               THEN [t \in Tasks |-> Outside("fatal")]
               ELSE [at EXCEPT !["loop"] = Outside("removeService")]
    /\ UNCHANGED <<Services, registered, created, pc, ticked, cancelled, env,
                   config, ret, streak, evicted, mu, hc, call,
                   cpuCollector, scrape, conns>>

\* if repo.Services[id].Collector != nil, read without the lock
HcCollectorNotNil ==
    /\ pc = "conc"
    /\ at["loop"] = Inside("Services[id].Collector != nil")
    /\ \E outcome \in BareRead :
         at' = IF outcome = "fatal"
               THEN [t \in Tasks |-> Outside("fatal")]
               ELSE [at EXCEPT !["loop"] =
                        IF getService(Services, hc.id).Collector # NoCollector
                        THEN Inside("Unregister(Services[id].Collector)")
                        ELSE Outside("removeService")]
    /\ UNCHANGED <<Services, registered, created, pc, ticked, cancelled, env,
                   config, ret, streak, evicted, mu, hc, call,
                   cpuCollector, scrape, conns>>

\* prometheus.Unregister(repo.Services[id].Collector), read without the lock
HcCollectorUnregister ==
    /\ pc = "conc"
    /\ at["loop"] = Inside("Unregister(Services[id].Collector)")
    /\ \E outcome \in BareRead :
         IF outcome = "fatal"
         THEN /\ at' = [t \in Tasks |-> Outside("fatal")]
              /\ registered' = registered
         ELSE /\ at' = [at EXCEPT !["loop"] = Outside("removeService")]
              /\ registered' = Unregister(registered,
                                          getService(Services, hc.id).Collector)
    /\ UNCHANGED <<Services, created, pc, ticked, cancelled, env, config, ret,
                   streak, evicted, mu, hc, call,
                   cpuCollector, scrape, conns>>

\* repo.removeService(id)
HcRemoveService ==
    /\ pc = "conc"
    /\ at["loop"] = Inside("removeService")
    /\ Services' = removeService(Services, hc.id)
    /\ mu' = Unlock("loop")
    /\ LET nxt == NextID(hc)
       IN /\ hc' = nxt.hc
          /\ at' = [at EXCEPT !["loop"] = nxt.at]
    /\ UNCHANGED <<registered, created, pc, ticked, cancelled, env, config, ret,
                   streak, evicted, call,
                   cpuCollector, scrape, conns>>

\* The other goroutine calls GetService(id) or AddServicesFromConfig(config).
CallerInvoke ==
    /\ pc = "conc"
    /\ at["caller"] = Outside("idle")
    /\ call.calls < MaxCalls
    /\ \/ \E id \in DOMAIN Services :
            /\ call' = [call EXCEPT !.id = id, !.calls = @ + 1]
            /\ at' = [at EXCEPT !["caller"] = Outside("getService")]
       \/ \E settings \in ConnSettingsInputs :
            /\ call' = [call EXCEPT
                           !.adds = configAdds(env,
                                        [ConnSettings |-> settings,
                                         ConnDefaults |-> config.ConnDefaults]),
                           !.calls = @ + 1]
            /\ at' = [at EXCEPT !["caller"] = Outside("addService")]
    /\ UNCHANGED <<Services, registered, created, pc, ticked, cancelled, env,
                   config, ret, streak, evicted, mu, hc,
                   cpuCollector, scrape, conns>>

\* GetService: s := repo.Services[id] and the return
CallerGetService ==
    /\ pc = "conc"
    /\ at["caller"] = Inside("getService")
    /\ mu' = RUnlock("caller")
    /\ at' = [at EXCEPT !["caller"] = Outside("idle")]
    /\ UNCHANGED <<Services, registered, created, pc, ticked, cancelled, env,
                   config, ret, streak, evicted, hc, call,
                   cpuCollector, scrape, conns>>

\* AddServicesFromConfig: repo.Services[id] = s of its next addService call
CallerAddService ==
    /\ pc = "conc"
    /\ at["caller"] = Inside("addService")
    /\ Services' = addService(Services, Head(call.adds).key, Head(call.adds).s)
    /\ mu' = Unlock("caller")
    /\ call' = [call EXCEPT !.adds = Tail(@)]
    /\ at' = [at EXCEPT !["caller"] =
                 IF Tail(call.adds) = <<>> THEN Outside("idle")
                 ELSE Outside("addService")]
    /\ UNCHANGED <<registered, created, pc, ticked, cancelled, env, config, ret,
                   streak, evicted, hc,
                   cpuCollector, scrape, conns>>

NextConc ==
    \/ \E t \in Tasks : RLock(t)
    \/ \E t \in Tasks : Lock(t)
    \/ HcTotalServices
    \/ HcGetServiceIDs
    \/ HcGetService
    \/ HcGetServiceStatus
    \/ HcMarkServiceFailed
    \/ HcCollectorNotNil
    \/ HcCollectorUnregister
    \/ HcRemoveService
    \/ CallerInvoke
    \/ CallerGetService
    \/ CallerAddService

SpecConc == InitConc /\ [][NextConc]_vars

----------------------------------------------------------------------------
(* SetupServices called by another goroutine while the loop goroutine runs *)
(* healthcheckServices, statement by statement                             *)

\* The calling goroutine calls SetupServices(config).
AttachInvoke ==
    /\ pc = "conc"
    /\ at["caller"] = Outside("idle")
    /\ call.calls < MaxCalls
    /\ call' = [call EXCEPT !.calls = @ + 1]
    /\ at' = [at EXCEPT !["caller"] = Outside("getServiceIDs")]
    /\ UNCHANGED <<Services, registered, created, pc, ticked, cancelled, env,
                   config, ret, streak, evicted, mu, hc,
                   cpuCollector, scrape, conns>>

\* setupServices goes on to the next id of its snapshot, or returns.
NextKey(c) ==
    IF c.ids = <<>>
    THEN [at |-> Outside("idle"), call |-> c]
    ELSE [at |-> Outside("getService"),
          call |-> [c EXCEPT !.id = Head(c.ids), !.ids = Tail(c.ids)]]

\* setupServices: the range over the map of repo.getServiceIDs()
AttachGetServiceIDs ==
    /\ pc = "conc"
    /\ at["caller"] = Inside("getServiceIDs")
    /\ \E ids \in setupOrders(Services) :
         LET nxt == NextKey([call EXCEPT !.ids = ids])
         IN /\ call' = nxt.call
            /\ at' = [at EXCEPT !["caller"] = nxt.at]
    /\ mu' = RUnlock("caller")
    /\ UNCHANGED <<Services, registered, created, pc, ticked, cancelled, env,
                   config, ret, streak, evicted, hc,
                   cpuCollector, scrape, conns>>

\* setupServices: var service = repo.getService(id), the test of its
\* collector and the switch on its type
AttachGetService ==
    /\ pc = "conc"
    /\ at["caller"] = Inside("getService")
    /\ LET service == getService(Services, call.id)
           nxt == NextKey(call)
       IN IF /\ service.Collector = NoCollector
             /\ service.ConnSettings.ServiceType \in
                    {ServiceTypeSystem, ServiceTypePostgresql, ServiceTypePgbouncer}
          THEN /\ call' = [call EXCEPT !.service = service]
               /\ at' = [at EXCEPT !["caller"] = Inside("NewPgscvCollector")]
          ELSE /\ call' = nxt.call
               /\ at' = [at EXCEPT !["caller"] = nxt.at]
    /\ mu' = RUnlock("caller")
    /\ UNCHANGED <<Services, registered, created, pc, ticked, cancelled, env,
                   config, ret, streak, evicted, hc,
                   cpuCollector, scrape, conns>>

\* setupServices: NewPostgresServiceConfig for an engine, NewPgscvCollector
\* and prometheus.MustRegister, whose panic ends the process.
AttachBuild ==
    /\ pc = "conc"
    /\ at["caller"] = Inside("NewPgscvCollector")
    /\ LET service == call.service
           mc == [sid |-> service.ServiceID,
                  n |-> Built(created, service.ServiceID) + 1]
           r == MustRegister(registered, mc)
           nxt == NextKey(call)
       IN IF /\ service.ConnSettings.ServiceType = ServiceTypePostgresql
             /\ ~NewPostgresServiceConfig(env, service.ConnSettings.Conninfo)
          THEN /\ call' = nxt.call
               /\ at' = [at EXCEPT !["caller"] = nxt.at]
               /\ UNCHANGED <<registered, created>>
          ELSE IF ~r.ok
          THEN /\ at' = [t \in Tasks |-> Outside("fatal")]
               /\ created' = Count(created, mc)
               /\ UNCHANGED <<registered, call>>
          ELSE /\ registered' = r.reg
               /\ created' = Count(created, mc)
               /\ call' = [call EXCEPT !.service.Collector = mc]
               /\ at' = [at EXCEPT !["caller"] = Outside("addService")]
    /\ UNCHANGED <<Services, pc, ticked, cancelled, env,
                   config, ret, streak, evicted, mu, hc,
                   cpuCollector, scrape, conns>>

\* setupServices: repo.addService(id, service), the updated copy
AttachAddService ==
    /\ pc = "conc"
    /\ at["caller"] = Inside("addService")
    /\ Services' = addService(Services, call.id, call.service)
    /\ mu' = Unlock("caller")
    /\ LET nxt == NextKey(call)
       IN /\ call' = nxt.call
          /\ at' = [at EXCEPT !["caller"] = nxt.at]
    /\ UNCHANGED <<registered, created, pc, ticked, cancelled, env, config, ret,
                   streak, evicted, hc,
                   cpuCollector, scrape, conns>>

\* An engine starts, stops, begins or ceases to accept connections, at any
\* moment.
HostChange ==
    /\ pc = "conc"
    /\ \E e \in EnvStates :
         /\ Cardinality({f \in DOMAIN env : e[f] # env[f]}) = 1
         /\ e.bouncer = env.bouncer
         /\ env' = e
    /\ UNCHANGED <<Services, registered, created, pc, ticked, cancelled,
                   config, ret, streak, evicted, mu, at, hc, call,
                   cpuCollector, scrape, conns>>

NextAttach ==
    \/ \E t \in Tasks : RLock(t)
    \/ \E t \in Tasks : Lock(t)
    \/ HcTotalServices
    \/ HcGetServiceIDs
    \/ HcGetService
    \/ HcGetServiceStatus
    \/ HcMarkServiceFailed
    \/ HcCollectorNotNil
    \/ HcCollectorUnregister
    \/ HcRemoveService
    \/ AttachInvoke
    \/ AttachGetServiceIDs
    \/ AttachGetService
    \/ AttachBuild
    \/ AttachAddService
    \/ HostChange

SpecAttach == InitConc /\ [][NextAttach]_vars

----------------------------------------------------------------------------
(* An id snapshot used after the registry has changed *)

\* The registry, the registered collectors and the collector counts after
\* the first discovery and attachment pass of the loop on host e0.
Attached(e0) ==
    With(lookupServices(addService([k \in {} |-> ZeroService],
                                   "system:0", SystemService),
                        e0, [ConnDefaults |-> NoDefaults]),
         LAMBDA S0 : setupServices(S0, {}, [s \in {} |-> 0], e0,
                                   CHOOSE o \in setupOrders(S0) : TRUE, ""))

\* A caller holds the slice getServiceIDs returned (hc.ids) while records
\* are removed and added, and then setupServices or healthcheckServices
\* iterates that slice.
InitSnapshot ==
    /\ pc = "snapshot"
    /\ \E e0 \in EnvStates, n \in {0, errorThreshold - 1} :
         LET st == Attached(e0)
         IN /\ Services = WithErrors(st.S, n)
            /\ registered = st.reg
            /\ created = st.next
            /\ env \in {e \in EnvStates : e.bouncer = e0.bouncer}
    /\ ticked = FALSE
    /\ cancelled = FALSE
    /\ config = [ConnDefaults |-> NoDefaults]
    /\ streak = [k \in {} |-> 0]
    /\ evicted = {}
    /\ mu = Unlocked
    /\ at = [t \in Tasks |-> Outside("")]
    /\ hc = NoLocals
    /\ call = NoCall
    /\ ret = NoRet
    /\ cpuCollector = NewCPUCollector
    /\ scrape = NoScrape
    /\ conns = NoConns

\* ids := repo.getServiceIDs()
SnapGetServiceIDs ==
    /\ pc = "snapshot"
    /\ \E ids \in getServiceIDs(Services) : hc' = [hc EXCEPT !.ids = ids]
    /\ pc' = "held"
    /\ UNCHANGED <<Services, registered, created, ticked, cancelled, env,
                   config, ret, streak, evicted, mu, at, call,
                   cpuCollector, scrape, conns>>

\* A record is removed as the health check removes it: its collector is
\* unregistered, then repo.removeService(id).
SnapRemove ==
    /\ pc = "held"
    /\ \E id \in DOMAIN Services :
         /\ IsRemote(Services[id])
         /\ registered' = Unregister(registered, Services[id].Collector)
         /\ Services' = removeService(Services, id)
    /\ UNCHANGED <<created, pc, ticked, cancelled, env, config, ret, streak,
                   evicted, conc,
                   cpuCollector, scrape, conns>>

\* repo.lookupServices(config) adds the records of the engines it finds.
SnapLookup ==
    /\ pc = "held"
    /\ Services' = lookupServices(Services, env, config)
    /\ Services' # Services
    /\ UNCHANGED <<registered, created, pc, ticked, cancelled, env, config, ret,
                   streak, evicted, conc,
                   cpuCollector, scrape, conns>>

\* setupServices iterates the slice held.
SnapSetup ==
    /\ pc = "held"
    /\ LET st == setupServices(Services, registered, created, env, hc.ids, "")
       IN /\ \A s \in DOMAIN st.next : st.next[s] <= MaxCollectors
          /\ Services' = st.S
          /\ registered' = st.reg
          /\ created' = st.next
          /\ pc' = IF st.outcome = "panic" THEN "crashed" ELSE "setupDone"
    /\ UNCHANGED <<ticked, cancelled, env, config, ret, streak, evicted, conc,
                   cpuCollector, scrape, conns>>

\* healthcheckServices iterates the slice held.
SnapHealthcheck ==
    /\ pc = "held"
    /\ LET st == healthcheckServices(Services, registered, env, hc.ids)
       IN /\ Services' = st.S
          /\ registered' = st.reg
    /\ pc' = "healthDone"
    /\ UNCHANGED <<created, ticked, cancelled, env, config, ret, streak, evicted,
                   conc,
                   cpuCollector, scrape, conns>>

NextSnapshot ==
    \/ SnapGetServiceIDs
    \/ SnapRemove
    \/ SnapLookup
    \/ SnapSetup
    \/ SnapHealthcheck

SpecSnapshot == InitSnapshot /\ [][NextSnapshot]_vars

----------------------------------------------------------------------------
(* The methods of the repository called one at a time *)

\* Ids given to the methods: the keys of the registry and two unknown ids.
IdInputs(S) == DOMAIN S \cup {"postgres:5433", ""}

\* Records given to addService.
ServiceInputs(S) ==
    {S[k] : k \in DOMAIN S} \cup {ZeroService, SystemService}
        \cup {[ServiceID |-> "postgres:5433",
                ConnSettings |-> cfgB,
                Collector |-> NoCollector,
                TotalErrors |-> 0]}

InitRepo ==
    /\ pc = "repo"
    /\ \E e0 \in EnvStates, n \in {0, errorThreshold - 1} :
         LET st == Attached(e0)
         IN /\ Services = WithErrors(st.S, n)
            /\ registered = st.reg
            /\ created = st.next
            /\ env = e0
    /\ ticked = FALSE
    /\ cancelled = FALSE
    /\ config = [ConnDefaults |-> NoDefaults]
    /\ streak = [k \in {} |-> 0]
    /\ evicted = {}
    /\ mu = Unlocked
    /\ at = [t \in Tasks |-> Outside("")]
    /\ hc = NoLocals
    /\ call = NoCall
    /\ ret = NoRet
    /\ cpuCollector = NewCPUCollector
    /\ scrape = NoScrape
    /\ conns = NoConns

\* A call may be made: pc names the last method called, call.id its id,
\* call.adds the record stored under that id before the call, hc.service
\* the record given or returned and hc.totalErrors the number returned.
CanCall == pc \in {"repo", "addService", "removeService", "getService",
                   "getServiceStatus"} /\ call.calls < MaxCalls + 1

Called(id) ==
    [call EXCEPT !.id = id, !.calls = @ + 1,
                 !.adds = <<[key |-> id, s |-> getService(Services, id)]>>]

\* repo.addService(id, s)
RepoAddService ==
    /\ CanCall
    /\ \E id \in IdInputs(Services), s \in ServiceInputs(Services) :
         /\ Services' = addService(Services, id, s)
         /\ call' = Called(id)
         /\ hc' = [hc EXCEPT !.service = s]
    /\ pc' = "addService"
    /\ UNCHANGED <<registered, created, ticked, cancelled, env, config, ret,
                   streak, evicted, mu, at,
                   cpuCollector, scrape, conns>>

\* repo.removeService(id)
RepoRemoveService ==
    /\ CanCall
    /\ \E id \in IdInputs(Services) :
         /\ Services' = removeService(Services, id)
         /\ call' = Called(id)
    /\ pc' = "removeService"
    /\ UNCHANGED <<registered, created, ticked, cancelled, env, config, ret,
                   streak, evicted, mu, at, hc,
                   cpuCollector, scrape, conns>>

\* s := repo.getService(id)
RepoGetService ==
    /\ CanCall
    /\ \E id \in IdInputs(Services) :
         /\ hc' = [hc EXCEPT !.service = getService(Services, id)]
         /\ call' = Called(id)
    /\ pc' = "getService"
    /\ UNCHANGED <<Services, registered, created, ticked, cancelled, env,
                   config, ret, streak, evicted, mu, at,
                   cpuCollector, scrape, conns>>

\* n := repo.getServiceStatus(id)
RepoGetServiceStatus ==
    /\ CanCall
    /\ \E id \in IdInputs(Services) :
         /\ hc' = [hc EXCEPT !.totalErrors = getServiceStatus(Services, id)]
         /\ call' = Called(id)
    /\ pc' = "getServiceStatus"
    /\ UNCHANGED <<Services, registered, created, ticked, cancelled, env,
                   config, ret, streak, evicted, mu, at,
                   cpuCollector, scrape, conns>>

NextRepo ==
    \/ RepoAddService
    \/ RepoRemoveService
    \/ RepoGetService
    \/ RepoGetServiceStatus

SpecRepo == InitRepo /\ [][NextRepo]_vars

----------------------------------------------------------------------------
(* markServiceFailed and markServiceHealthy called one at a time, also    *)
(* after a removeService                                                   *)

CanMark == pc \in {"repo", "removeService", "markServiceFailed",
                   "markServiceHealthy"} /\ call.calls < MaxCalls + 1

\* repo.markServiceFailed(id)
RepoMarkServiceFailed ==
    /\ CanMark
    /\ \E id \in IdInputs(Services) \cup {call.id} :
         /\ Services' = markServiceFailed(Services, id)
         /\ call' = Called(id)
    /\ pc' = "markServiceFailed"
    /\ UNCHANGED <<registered, created, ticked, cancelled, env, config, ret,
                   streak, evicted, mu, at, hc,
                   cpuCollector, scrape, conns>>

\* repo.markServiceHealthy(id)
RepoMarkServiceHealthy ==
    /\ CanMark
    /\ \E id \in IdInputs(Services) \cup {call.id} :
         /\ Services' = markServiceHealthy(Services, id)
         /\ call' = Called(id)
    /\ pc' = "markServiceHealthy"
    /\ UNCHANGED <<registered, created, ticked, cancelled, env, config, ret,
                   streak, evicted, mu, at, hc,
                   cpuCollector, scrape, conns>>

NextMark ==
    \/ RepoRemoveService
    \/ RepoMarkServiceFailed
    \/ RepoMarkServiceHealthy

SpecMark == InitRepo /\ [][NextMark]_vars

----------------------------------------------------------------------------
(* The metadata parsers and the connection strings, each called on its own *)
(* with arguments drawn from the sets below.                               *)

\* The lines a pidfile can have at each position.
PidFileLines ==
    <<{"42", "pid"}, {"/var/lib/pg"}, {"1700000000", "now"},
      {"5432", "6432", "port"}, {"/tmp", "/var/run/postgresql", ""},
      {"*", "10.0.0.1", ""}>>

\* The pidfile contents of n lines.
RECURSIVE Contents(_)
Contents(n) ==
    IF n = 0 THEN {<<>>}
    ELSE {Append(c, l) : c \in Contents(n - 1), l \in PidFileLines[n]}

\* What os.ReadFile returns for a pidfile: an error, or up to six lines.
PidFileInputs ==
    {[ok |-> FALSE, content |-> <<>>]}
        \cup {[ok |-> TRUE, content |-> c] :
                 c \in UNION {Contents(n) : n \in 0..Len(PidFileLines)}}

\* Command lines of a postmaster.
CmdlineInputs ==
    {<<"/usr/bin/postgres">>,
     <<"/usr/bin/postgres", "-D">>,
     <<"/usr/bin/postgres", "-D", "/var/lib/pg">>,
     <<"/usr/bin/postgres", "-c", "-D", "/var/lib/pg">>}

\* Lines of an ini file, by what they are about; each choice is a sequence
\* of lines, and a file is one choice of each in this order.
IniCommentLines ==
    {<<>>,
     <<<<";", " ", "listen_port", " ", "=", " ", "1">>, <<>>>>,
     <<<<"#", "listen_addr", "=", "10.0.0.2">>, <<"[pgbouncer]">>>>}

IniAddrLines ==
    {<<>>,
     <<<<"listen_addr", " ", "=", " ", "*", ",", " ", "10.0.0.1">>>>,
     <<<<"listen_addr", "=", "10.0.0.1", ",", "*">>>>,
     <<<<"listen_addr", " ", "=", " ", "*">>>>}

IniPortLines ==
    {<<>>,
     <<<<"listen_port", " ", "=", " ", "16432">>>>,
     <<<<"listen_port", "=", "6432">>, <<"listen_port", "=", "16432">>>>,
     <<<<"listen_port", "\t", "=", "\t", "16432">>>>,
     <<<<"listen_port", " ", "=", " ", "auto">>>>}

IniSocketLines ==
    {<<>>,
     <<<<"unix_socket_dir", " ", "=", " ", "/var/run/pgbouncer">>>>}

IniOtherLines ==
    {<<>>,
     <<<<"pool_mode", " ", "=", " ", "session">>,
       <<"pgscv", " ", "=", " ", "host", "=", "127.0.0.1">>>>}

IniInputs ==
    {[ok |-> TRUE, content |-> c \o a \o pt \o s \o o] :
        c \in IniCommentLines, a \in IniAddrLines, pt \in IniPortLines,
        s \in IniSocketLines, o \in IniOtherLines}

\* Connection parameters, defaults maps and the transport flag.
ParamsInputs ==
    {[ZeroParams EXCEPT !.unixSocketDirPath = u, !.listenAddr = a,
                        !.listenPort = n] :
        u \in {"", "/tmp"}, a \in {"", "10.0.0.1"}, n \in {0, 5432}}

DefaultsInputs ==
    {NoDefaults,
     [k \in {"postgres_username", "postgres_dbname"} |->
         IF k = "postgres_username" THEN "monitor" ELSE "app"],
     [k \in {"postgres_password"} |-> "secret"],
     [k \in {"postgres_password"} |-> ""]}

\* The calls: function and arguments.
MetadataCalls ==
    {[fn |-> "newPostgresConnectionParams", in |-> f, out |-> <<>>] :
        f \in PidFileInputs}
    \cup {[fn |-> "discoverPostgres", in |-> [cmdline |-> c, file |-> f],
           out |-> <<>>] : c \in CmdlineInputs, f \in PidFileInputs}
    \cup {[fn |-> "parsePgbouncerIniFile", in |-> f, out |-> <<>>] :
            f \in IniInputs}
    \cup {[fn |-> "newPostgresConnectionString",
           in |-> [connParams |-> cp, defaults |-> d, unix |-> u],
           out |-> <<>>] :
            cp \in ParamsInputs, d \in DefaultsInputs, u \in BOOLEAN}

InitMetadata ==
    /\ Services = [k \in {} |-> ZeroService]
    /\ registered = {}
    /\ created = [s \in {} |-> 0]
    /\ pc = "call"
    /\ ticked = FALSE
    /\ cancelled = FALSE
    /\ env = [pgA |-> "up", pgB |-> "up", bouncer |-> "up"]
    /\ config = [ConnDefaults |-> NoDefaults]
    /\ streak = [k \in {} |-> 0]
    /\ evicted = {}
    /\ mu = Unlocked
    /\ at = [t \in Tasks |-> Outside("")]
    /\ hc = NoLocals
    /\ call = NoCall
    /\ ret \in MetadataCalls
    /\ cpuCollector = NewCPUCollector
    /\ scrape = NoScrape
    /\ conns = NoConns

\* Each call returns: ret.out is the value returned.
CallNewPostgresConnectionParams ==
    /\ pc = "call"
    /\ ret.fn = "newPostgresConnectionParams"
    /\ ret' = [ret EXCEPT !.out = newPostgresConnectionParamsFrom(ret.in)]
    /\ pc' = "returned"
    /\ UNCHANGED conc
    /\ UNCHANGED <<Services, registered, created, ticked, cancelled, env,
                   config, streak, evicted,
                   cpuCollector, scrape, conns>>

CallDiscoverPostgres ==
    /\ pc = "call"
    /\ ret.fn = "discoverPostgres"
    /\ ret' = [ret EXCEPT !.out = discoverPostgresWith(env,
                 parsePostgresProcessCmdline(ret.in.cmdline),
                 newPostgresConnectionParamsFrom(ret.in.file), config)]
    /\ pc' = "returned"
    /\ UNCHANGED conc
    /\ UNCHANGED <<Services, registered, created, ticked, cancelled, env,
                   config, streak, evicted,
                   cpuCollector, scrape, conns>>

CallParsePgbouncerIniFile ==
    /\ pc = "call"
    /\ ret.fn = "parsePgbouncerIniFile"
    /\ ret' = [ret EXCEPT !.out = parsePgbouncerIniFileFrom(ret.in)]
    /\ pc' = "returned"
    /\ UNCHANGED conc
    /\ UNCHANGED <<Services, registered, created, ticked, cancelled, env,
                   config, streak, evicted,
                   cpuCollector, scrape, conns>>

CallNewPostgresConnectionString ==
    /\ pc = "call"
    /\ ret.fn = "newPostgresConnectionString"
    /\ ret' = [ret EXCEPT !.out = newPostgresConnectionString(ret.in.connParams,
                 ret.in.defaults, ret.in.unix)]
    /\ pc' = "returned"
    /\ UNCHANGED conc
    /\ UNCHANGED <<Services, registered, created, ticked, cancelled, env,
                   config, streak, evicted,
                   cpuCollector, scrape, conns>>

NextMetadata ==
    \/ CallNewPostgresConnectionParams
    \/ CallDiscoverPostgres
    \/ CallParsePgbouncerIniFile
    \/ CallNewPostgresConnectionString

SpecMetadata == InitMetadata /\ [][NextMetadata]_vars

----------------------------------------------------------------------------
(* main: the configuration is read and validated before the supervisor    *)
(* starts.  ret.in is the Config as read, ret.out what Validate returned.  *)

defaultListenAddress == "127.0.0.1:9890"

\* A service without service_type.
cfgNoType == [ServiceType |-> "", Conninfo |-> cfgA.Conninfo]

\* Configurations NewConfig can return.
ConfigInputs ==
    [SendMetricsURL : {"", "https://push.weaponry.io"},
     APIKey : {"", "12345678"},
     ListenAddress : {"", "0.0.0.0:9890"},
     NoTrackMode : BOOLEAN,
     Defaults : {NoDefaults, [k \in {"postgres_username"} |-> "monitor"]},
     ServicesConnSettings : {<<>>, <<cfgA>>, <<cfgA, cfgBad>>, <<cfgNoType>>}]

\* The first error of the loop over ServicesConnSettings from index i.
RECURSIVE validateServices(_, _)
validateServices(settings, i) ==
    IF i > Len(settings) THEN ""
    ELSE IF settings[i].ServiceType = ""
    THEN "service_type is not specified"
    ELSE IF ~ParseConfig(settings[i].Conninfo).ok
    THEN "invalid conninfo"
    ELSE validateServices(settings, i + 1)

\* The defaults map after the four "if not set" assignments.
WithDefaults(d) ==
    [k \in DOMAIN d \cup {"postgres_username", "postgres_dbname",
                          "pgbouncer_username", "pgbouncer_dbname"} |->
        IF k \in DOMAIN d THEN d[k]
        ELSE CASE k = "postgres_username" -> defaultPostgresUsername
               [] k = "postgres_dbname" -> defaultPostgresDbname
               [] k = "pgbouncer_username" -> defaultPgbouncerUsername
               [] OTHER -> defaultPgbouncerDbname]

\* A validation without the check of the API key.
ValidateWithoutKey(c, compiles) ==
    LET c1 == [c EXCEPT !.ListenAddress =
                            IF @ = "" THEN defaultListenAddress ELSE @,
                        !.Defaults = WithDefaults(@)]
        err == validateServices(c.ServicesConnSettings, 1)
    IN IF err # "" THEN [err |-> err, c |-> c1]
       ELSE IF ~compiles THEN [err |-> "filters", c |-> c1]
       ELSE [err |-> "", c |-> c1]

\* Config.Validate: [err, c], err = "" for nil and c the Config as the
\* call leaves it; compiles is the outcome of c.Filters.Compile().
Validate(c, compiles) ==
    LET c1 == [c EXCEPT !.ListenAddress =
                            IF @ = "" THEN defaultListenAddress ELSE @,
                        !.Defaults = WithDefaults(@)]
        err == validateServices(c.ServicesConnSettings, 1)
    IN IF c.SendMetricsURL # "" /\ c.APIKey = ""
       THEN [err |-> "API key should be specified", c |-> c]
       ELSE IF err # "" THEN [err |-> err, c |-> c1]
       ELSE IF ~compiles THEN [err |-> "filters", c |-> c1]
       ELSE [err |-> "", c |-> c1]

InitMain ==
    /\ Services = [k \in {} |-> ZeroService]
    /\ registered = {}
    /\ created = [s \in {} |-> 0]
    /\ pc = "main"
    /\ ticked = FALSE
    /\ cancelled = FALSE
    /\ env = [pgA |-> "up", pgB |-> "up", bouncer |-> "up"]
    /\ config = [ConnDefaults |-> NoDefaults]
    /\ streak = [k \in {} |-> 0]
    /\ evicted = {}
    /\ mu = Unlocked
    /\ at = [t \in Tasks |-> Outside("")]
    /\ hc = NoLocals
    /\ call = NoCall
    /\ ret = NoRet
    /\ cpuCollector = NewCPUCollector
    /\ scrape = NoScrape
    /\ conns = NoConns

\* pgscv.NewConfig(*configFile): an error ends the process.
MainNewConfig ==
    /\ pc = "main"
    /\ \/ /\ ret' = ret
          /\ pc' = "exited"
       \/ /\ \E c \in ConfigInputs : ret' = [fn |-> "main", in |-> c, out |-> <<>>]
          /\ pc' = "config"
    /\ UNCHANGED conc
    /\ UNCHANGED <<Services, registered, created, ticked, cancelled, env,
                   config, streak, evicted,
                   cpuCollector, scrape, conns>>

\* config.Validate(): an error ends the process.
MainValidate ==
    /\ pc = "config"
    /\ \E compiles \in BOOLEAN :
         /\ ret' = [ret EXCEPT !.out = Validate(ret.in, compiles)]
         /\ pc' = IF Validate(ret.in, compiles).err # "" THEN "exited"
                  ELSE "validated"
    /\ UNCHANGED conc
    /\ UNCHANGED <<Services, registered, created, ticked, cancelled, env,
                   config, streak, evicted,
                   cpuCollector, scrape, conns>>

\* go pgscv.Start(ctx, config): the supervisor starts with the defaults of
\* the validated configuration.
MainStart ==
    /\ pc = "validated"
    /\ config' = [ConnDefaults |-> ret.out.c.Defaults]
    /\ pc' = "started"
    /\ UNCHANGED conc
    /\ UNCHANGED <<Services, registered, created, ticked, cancelled, env,
                   streak, evicted, ret,
                   cpuCollector, scrape, conns>>

NextMain == MainNewConfig \/ MainValidate \/ MainStart

SpecMain == InitMain /\ [][NextMain]_vars

----------------------------------------------------------------------------
(* cpuCollector.updateCPUStats, called with readings of /proc/stat *)

\* The readings: one procfs.CPUStat per CPU.
Readings ==
    UNION {[1..n -> [Idle : 0..MaxCounter, User : 0..MaxCounter]] :
              n \in 1..MaxCPUs}

\* The cache entry of one CPU after the loop body for its reading n.
updateOne(old, n) ==
    LET kept == IF n.Idle < old.Idle THEN ZeroCPUStat ELSE old
    IN [Idle |-> n.Idle,
        User |-> IF n.User >= kept.User THEN n.User ELSE kept.User]

\* The sum of the CPUStat records of stats from index i, added to sum.
RECURSIVE aggregate(_, _, _)
aggregate(stats, i, sum) ==
    IF i > Len(stats) THEN sum
    ELSE aggregate(stats, i + 1,
                   [Idle |-> sum.Idle + stats[i].Idle,
                    User |-> sum.User + stats[i].User])

\* An update that aggregates the cache instead of the reading.
updateCPUStatsFromCache(c, newStats) ==
    LET cache == IF Len(c.cpuStats) # Len(newStats)
                 THEN [i \in 1..Len(newStats) |-> ZeroCPUStat]
                 ELSE c.cpuStats
        updated == [i \in 1..Len(newStats) |-> updateOne(cache[i], newStats[i])]
    IN [cpuStats |-> updated,
        cpuStatsSum |-> aggregate(updated, 1, ZeroCPUStat)]

\* updateCPUStats: the collector after the call.
updateCPUStats(c, newStats) ==
    LET cache == IF Len(c.cpuStats) # Len(newStats)
                 THEN [i \in 1..Len(newStats) |-> ZeroCPUStat]
                 ELSE c.cpuStats
    IN [cpuStats |-> [i \in 1..Len(newStats) |->
                         updateOne(cache[i], newStats[i])],
        cpuStatsSum |-> aggregate(newStats, 1, ZeroCPUStat)]

InitCPU ==
    /\ Services = [k \in {} |-> ZeroService]
    /\ registered = {}
    /\ created = [s \in {} |-> 0]
    /\ pc = "cpu"
    /\ ticked = FALSE
    /\ cancelled = FALSE
    /\ env = [pgA |-> "up", pgB |-> "up", bouncer |-> "up"]
    /\ config = [ConnDefaults |-> NoDefaults]
    /\ streak = [k \in {} |-> 0]
    /\ evicted = {}
    /\ mu = Unlocked
    /\ at = [t \in Tasks |-> Outside("")]
    /\ hc = NoLocals
    /\ call = NoCall
    /\ ret = NoRet
    /\ cpuCollector = NewCPUCollector
    /\ scrape = NoScrape
    /\ conns = NoConns

\* cpuCollector.Update: c.updateCPUStats(stats.CPU) with a fresh reading.
UpdateCPUStats ==
    /\ pc = "cpu"
    /\ \E newStats \in Readings :
         /\ cpuCollector' = updateCPUStats(cpuCollector, newStats)
         /\ ret' = [fn |-> "updateCPUStats", in |-> newStats, out |-> <<>>]
    /\ UNCHANGED conc
    /\ UNCHANGED <<Services, registered, created, pc, ticked, cancelled, env,
                   config, streak, evicted, scrape, conns>>

NextCPU == UpdateCPUStats

SpecCPU == InitCPU /\ [][NextCPU]_vars

----------------------------------------------------------------------------
(* cpuCollector.updateStat in concurrent scrapes, statement by statement *)

\* Invocations of updateStat per goroutine.
MaxScrapes == 1

\* The readings of the scrapes: those of a host with one CPU.
ScrapeReadings == {r \in Readings : Len(r) = 1}

\* The fields of cpuStatsSum in the order updateStat sends them: User for
\* the nine counters that are not Idle.
SampleFields == <<"User", "Idle">>

InitScrape ==
    /\ Services = [k \in {} |-> ZeroService]
    /\ registered = {}
    /\ created = [s \in {} |-> 0]
    /\ pc = "scrape"
    /\ ticked = FALSE
    /\ cancelled = FALSE
    /\ env = [pgA |-> "up", pgB |-> "up", bouncer |-> "up"]
    /\ config = [ConnDefaults |-> NoDefaults]
    /\ streak = [k \in {} |-> 0]
    /\ evicted = {}
    /\ mu = Unlocked
    /\ at = [t \in Tasks |-> Outside("")]
    /\ hc = NoLocals
    /\ call = NoCall
    /\ ret = NoRet
    /\ cpuCollector = NewCPUCollector
    /\ scrape = NoScrape
    /\ conns = NoConns

\* stats, err := c.fs.Stat()
ScrapeStat(g) ==
    /\ pc = "scrape"
    /\ scrape.of[g].at = "idle"
    /\ scrape.of[g].calls < MaxScrapes
    /\ \E stats \in ScrapeReadings :
         scrape' = [scrape EXCEPT !.of[g] =
                       [at |-> "updateCPUStats", stats |-> stats, sent |-> <<>>,
                        from |-> <<>>, calls |-> @.calls + 1]]
    /\ UNCHANGED <<conc, conns>>
    /\ UNCHANGED <<Services, registered, created, pc, ticked, cancelled, env,
                   config, ret, streak, evicted, cpuCollector>>

\* c.updateCPUStats(stats.CPU): c.cpuStatsMutex.Lock()
ScrapeUpdateLock(g) ==
    /\ pc = "scrape"
    /\ scrape.of[g].at = "updateCPUStats"
    /\ scrape.mutex = ""
    /\ scrape' = [scrape EXCEPT !.mutex = g, !.of[g].at = "update"]
    /\ UNCHANGED <<conc, conns>>
    /\ UNCHANGED <<Services, registered, created, pc, ticked, cancelled, env,
                   config, ret, streak, evicted, cpuCollector>>

\* c.updateCPUStats(stats.CPU): the update and the deferred Unlock
ScrapeUpdate(g) ==
    /\ pc = "scrape"
    /\ scrape.of[g].at = "update"
    /\ cpuCollector' = updateCPUStats(cpuCollector, scrape.of[g].stats)
    /\ scrape' = [scrape EXCEPT !.mutex = "", !.of[g].at = "Lock"]
    /\ UNCHANGED <<conc, conns>>
    /\ UNCHANGED <<Services, registered, created, pc, ticked, cancelled, env,
                   config, ret, streak, evicted>>

\* An updateStat that reads the aggregate without the mutex.
ScrapeNoLock(g) ==
    /\ pc = "scrape"
    /\ scrape.of[g].at = "Lock"
    /\ scrape' = [scrape EXCEPT !.of[g].at = "send"]
    /\ UNCHANGED <<conc, conns>>
    /\ UNCHANGED <<Services, registered, created, pc, ticked, cancelled, env,
                   config, ret, streak, evicted, cpuCollector>>

\* updateStat: c.cpuStatsMutex.Lock()
ScrapeLock(g) ==
    /\ pc = "scrape"
    /\ scrape.of[g].at = "Lock"
    /\ scrape.mutex = ""
    /\ scrape' = [scrape EXCEPT !.mutex = g, !.of[g].at = "send"]
    /\ UNCHANGED <<conc, conns>>
    /\ UNCHANGED <<Services, registered, created, pc, ticked, cancelled, env,
                   config, ret, streak, evicted, cpuCollector>>

\* updateStat: ch <- mustNewConstMetric(c.cpuStatsSum.<field>, ...) for the
\* next field
ScrapeSend(g) ==
    /\ pc = "scrape"
    /\ scrape.of[g].at = "send"
    /\ LET field == SampleFields[Len(scrape.of[g].sent) + 1]
           sent == Append(scrape.of[g].sent, cpuCollector.cpuStatsSum[field])
       IN scrape' = [scrape EXCEPT
                        !.of[g].sent = sent,
                        !.of[g].from = Append(@, cpuCollector.cpuStatsSum),
                        !.of[g].at = IF Len(sent) = Len(SampleFields)
                                     THEN "return" ELSE "send"]
    /\ UNCHANGED <<conc, conns>>
    /\ UNCHANGED <<Services, registered, created, pc, ticked, cancelled, env,
                   config, ret, streak, evicted, cpuCollector>>

\* updateStat: return nil and the deferred c.cpuStatsMutex.Unlock()
ScrapeReturn(g) ==
    /\ pc = "scrape"
    /\ scrape.of[g].at = "return"
    /\ scrape' = [scrape EXCEPT !.mutex = "", !.of[g].at = "idle"]
    /\ UNCHANGED <<conc, conns>>
    /\ UNCHANGED <<Services, registered, created, pc, ticked, cancelled, env,
                   config, ret, streak, evicted, cpuCollector>>

NextScrape ==
    \/ \E g \in Scrapers : ScrapeStat(g)
    \/ \E g \in Scrapers : ScrapeUpdateLock(g)
    \/ \E g \in Scrapers : ScrapeUpdate(g)
    \/ \E g \in Scrapers : ScrapeLock(g)
    \/ \E g \in Scrapers : ScrapeSend(g)
    \/ \E g \in Scrapers : ScrapeReturn(g)

SpecScrape == InitScrape /\ [][NextScrape]_vars

----------------------------------------------------------------------------
----------------------------------------------------------------------------
(* The connection probes, statement by statement *)

\* Probes made between two returns to the loop.
MaxProbes == 2

\* The callers of a probe: discoverPostgres and discoverPgbouncer, the
\* health check, and the validation of a configured service.
ProbeSites == {"lookupServices", "healthcheckServices", "addServicesFromConfig"}

\* The connection strings probed.
ProbeConninfos ==
    {cfgA.Conninfo, cfgB.Conninfo, cfgBad.Conninfo,
     <<<<"host", "127.0.0.1">>, <<"port", "6432">>>>}

InitProbe ==
    /\ Services = [k \in {} |-> ZeroService]
    /\ registered = {}
    /\ created = [s \in {} |-> 0]
    /\ pc = "probe"
    /\ ticked = FALSE
    /\ cancelled = FALSE
    /\ env \in EnvStates
    /\ config = [ConnDefaults |-> NoDefaults]
    /\ streak = [k \in {} |-> 0]
    /\ evicted = {}
    /\ mu = Unlocked
    /\ at = [t \in Tasks |-> Outside("")]
    /\ hc = NoLocals
    /\ call = NoCall
    /\ ret = NoRet
    /\ cpuCollector = NewCPUCollector
    /\ scrape = NoScrape
    /\ conns = NoConns

\* attemptConnect(connString) is called, or addServicesFromConfig comes to
\* the connection settings cs.
ProbeCall(site, connString) ==
    /\ pc = "probe"
    /\ conns.at = "idle"
    /\ Len(conns.results) < MaxProbes
    /\ conns' = [conns EXCEPT !.at = "New", !.site = site,
                              !.connString = connString, !.db = 0]
    /\ UNCHANGED conc
    /\ UNCHANGED <<Services, registered, created, pc, ticked, cancelled, env,
                   config, ret, streak, evicted, cpuCollector, scrape>>

\* db, err := store.New(connString), or pgx.ParseConfig and
\* store.NewWithConfig(pgconfig): on an error no connection is returned and
\* the probe is over (return err, continue).
ProbeNew ==
    /\ pc = "probe"
    /\ conns.at = "New"
    /\ conns' = IF attemptConnect(env, conns.connString)
                THEN [conns EXCEPT !.at = "Close",
                                   !.opened = @ + 1,
                                   !.db = conns.opened + 1,
                                   !.open = @ \cup {conns.opened + 1}]
                ELSE [conns EXCEPT !.at = "idle",
                                   !.results = Append(@, FALSE)]
    /\ UNCHANGED conc
    /\ UNCHANGED <<Services, registered, created, pc, ticked, cancelled, env,
                   config, ret, streak, evicted, cpuCollector, scrape>>

\* A probe that goes on without closing its connection.
ProbeKeepsOpen ==
    /\ pc = "probe"
    /\ conns.at = "Close"
    /\ conns' = [conns EXCEPT !.at = "return"]
    /\ UNCHANGED conc
    /\ UNCHANGED <<Services, registered, created, pc, ticked, cancelled, env,
                   config, ret, streak, evicted, cpuCollector, scrape>>

\* db.Close()
ProbeClose ==
    /\ pc = "probe"
    /\ conns.at = "Close"
    /\ conns' = [conns EXCEPT !.at = "return", !.open = @ \ {conns.db}]
    /\ UNCHANGED conc
    /\ UNCHANGED <<Services, registered, created, pc, ticked, cancelled, env,
                   config, ret, streak, evicted, cpuCollector, scrape>>

\* return nil; in addServicesFromConfig the loop goes on to build the service
ProbeReturn ==
    /\ pc = "probe"
    /\ conns.at = "return"
    /\ conns' = [conns EXCEPT !.at = "idle", !.db = 0,
                              !.results = Append(@, TRUE)]
    /\ UNCHANGED conc
    /\ UNCHANGED <<Services, registered, created, pc, ticked, cancelled, env,
                   config, ret, streak, evicted, cpuCollector, scrape>>

NextProbe ==
    \/ \E site \in ProbeSites, connString \in ProbeConninfos :
         ProbeCall(site, connString)
    \/ ProbeNew
    \/ ProbeClose
    \/ ProbeReturn

SpecProbe == InitProbe /\ [][NextProbe]_vars

(* Properties *)

\* The probe of the health check fails for record s on host e.
ProbeFails(e, s) == IsRemote(s) /\ ~attemptConnect(e, s.ConnSettings.Conninfo)

\* C1: in a health check, a remote service whose probe fails for the n-th
\* consecutive time (n = streak + 1) stays in the registry with a failure
\* counter of n while n < 10, and at n = 10 it is removed and its collector
\* is unregistered.
C1_TransientOutagePreserved ==
    [][pc = "health" =>
        \A k \in DOMAIN Services :
            ProbeFails(env, Services[k]) =>
                IF streak[k] + 1 < errorThreshold
                THEN /\ k \in DOMAIN Services'
                     /\ Services'[k].TotalErrors = streak[k] + 1
                ELSE /\ k \notin DOMAIN Services'
                     /\ Services[k].Collector \notin registered']_vars

\* C2: after a health check in which the probe of a registered remote
\* service succeeded, that service's failure counter is 0.
C2_SuccessResetsCounter ==
    [][pc = "health" =>
        \A k \in DOMAIN Services :
            (IsRemote(Services[k]) /\ ~ProbeFails(env, Services[k])) =>
                /\ k \in DOMAIN Services'
                /\ Services'[k].TotalErrors = 0]_vars

\* C3: once the supervisor has started, system:0 is in the registry, as
\* the system pseudo-service, never counted a failure.
C3_SystemAlwaysPresent ==
    pc # "init" =>
        /\ "system:0" \in DOMAIN Services
        /\ Services["system:0"].ServiceID = "system:0"
        /\ Services["system:0"].ConnSettings.ServiceType = ServiceTypeSystem
        /\ Services["system:0"].TotalErrors = 0

\* C3 witness: a health check has just evicted a service and system:0 is
\* still there.
C3_Witness ==
    /\ pc = "sleep"
    /\ evicted # {}
    /\ "system:0" \in DOMAIN Services

\* C4: a discovery pass leaves every record of the registry as it was, and
\* a further pass on the same host would change nothing.
C4_DiscoveryKeepsRecords ==
    [][pc = "lookup" =>
        /\ \A k \in DOMAIN Services :
              k \in DOMAIN Services' /\ Services'[k] = Services[k]
        /\ pc' = "setup" =>
              lookupServices(Services', env, config) = Services']_vars

\* C4 witness: a pass has just run over both engines of port 5432 while the
\* record of that id had a collector and counted failures.
C4_Witness ==
    /\ pc = "setup"
    /\ env.pgA # "absent"
    /\ env.pgB # "absent"
    /\ "postgres:5432" \in DOMAIN Services
    /\ Services["postgres:5432"].Collector # NoCollector
    /\ Services["postgres:5432"].TotalErrors > 0

C6_UniqueServiceID ==
    \A k1, k2 \in DOMAIN Services :
        Services[k1].ServiceID = Services[k2].ServiceID => k1 = k2

\* The host and port a record connects to.
Endpoint(s) == ParseConfig(s.ConnSettings.Conninfo)

Readmittable(e, ev) ==
    \E pid \in {Pids(e)[i] : i \in 1..Len(Pids(e))} :
        LET proc == Processes[pid]
            found == IF proc.name = "pgbouncer"
                     THEN discoverPgbouncer(e, proc, config)
                     ELSE discoverPostgres(e, proc, config)
        IN /\ proc.name = "pgbouncer" \/ (proc.name = "postgres" /\ proc.ppid = 1)
           /\ found.ok
           /\ found.s.ServiceID = ev.sid
           /\ found.s.ConnSettings.Conninfo = ev.conn
           /\ attemptConnect(e, ev.conn)

\* C8: when discovery and attachment have run after a health check that
\* evicted a service whose process is in the table and reachable, the
\* registry has a record under the same id with failure counter 0 and a
\* new, registered collector, and the old collector is not registered.
C8_EvictionRoundTrip ==
    pc = "health" =>
        \A ev \in evicted :
            Readmittable(env, ev) =>
                /\ ev.key \in DOMAIN Services
                /\ Services[ev.key].ServiceID = ev.sid
                /\ Services[ev.key].TotalErrors = 0
                /\ Services[ev.key].Collector # NoCollector
                /\ Services[ev.key].Collector # ev.old
                /\ Services[ev.key].Collector \in registered
                /\ ev.old \notin registered

\* C9: on a host that does not change, no step after the first iteration
\* of the loop adds a record to the registry or removes one.
C9_FixedPointAfterFirstTick ==
    [][ticked => DOMAIN Services' = DOMAIN Services]_vars

\* A goroutine that is in a map operation holds the lock of the registry:
\* exclusively for a write, at least shared for a read.
LockHeldAtAccess ==
    \A t \in Tasks :
        at[t].in =>
            IF at[t].op \in WriteOps THEN mu.w = t
            ELSE t \in mu.r \/ mu.w = t

\* No goroutine is in a map operation made without the lock while another
\* one is in a write of the map.
NoUnlockedAccessDuringWrite ==
    \A t1, t2 \in Tasks :
        (t1 # t2 /\ at[t1].in /\ at[t2].in /\ at[t2].op \in WriteOps)
            => (t1 \in mu.r \/ mu.w = t1)

\* C10: every read and write of the Services map happens with the lock of
\* the registry held, shared for a read and exclusive for a write, so the
\* map is never accessed without the lock while another goroutine writes it.
C10_MapAccessUnderLock ==
    LockHeldAtAccess /\ NoUnlockedAccessDuringWrite

\* C11: a goroutine that reads a record while healthcheckServices runs
\* never finds a record whose collector is not registered, and no collector
\* of a remote service is registered without a record that has it.
C11_EvictionAtomic ==
    at["caller"] = Inside("getService") =>
        /\ LET s == getService(Services, call.id)
           IN s.Collector # NoCollector => s.Collector \in registered
        /\ \A c \in registered :
              c.sid # "system:0" =>
                  \E k \in DOMAIN Services : Services[k].Collector = c

\* C12: once the context is cancelled, the loop returns (or the process
\* has stopped with a panic).
C12_CancelledLoopReturns ==
    cancelled ~> (pc \in {"done", "crashed"})

\* C13: every record a discovery pass adds to the registry has a
\* connection string that accepts a connection during that pass.
C13_AddedOnlyIfProbed ==
    [][pc = "lookup" =>
        \A k \in DOMAIN Services' \ DOMAIN Services :
            attemptConnect(env, Services'[k].ConnSettings.Conninfo)]_vars

\* C14: the failure counter of every record is below the eviction
\* threshold, and the health check in which a record with a counter of
\* threshold - 1 fails its probe removes that record.
C14_CounterBelowThreshold ==
    [][/\ \A k \in DOMAIN Services' :
              Services'[k].TotalErrors < errorThreshold
       /\ pc = "health" =>
              \A k \in DOMAIN Services :
                  (ProbeFails(env, Services[k])
                      /\ Services[k].TotalErrors = errorThreshold - 1)
                  => k \notin DOMAIN Services']_vars

\* C14 witness: a health check has just removed a record whose counter
\* stood at threshold - 1, while another record keeps a counter of at least 1.
C14_Witness ==
    /\ pc = "sleep"
    /\ evicted # {}
    /\ \E k \in DOMAIN Services : Services[k].TotalErrors > 0

\* C15: in every step the failure counter of a record that stays in the
\* registry is unchanged, one more than before, or 0.
C15_CounterSteps ==
    [][\A k \in DOMAIN Services \cap DOMAIN Services' :
          Services'[k].TotalErrors \in
              {Services[k].TotalErrors, Services[k].TotalErrors + 1, 0}]_vars

\* C15 witness: a record has been counted failures in several health checks
\* and kept through discovery and attachment passes in between.
C15_Witness ==
    /\ pc = "health"
    /\ \E k \in DOMAIN Services :
          /\ Services[k].TotalErrors >= 3
          /\ Services[k].Collector # NoCollector

\* The ids of the slice held that are no longer keys of the registry.
Stale == {hc.ids[i] : i \in 1..Len(hc.ids)} \ DOMAIN Services

\* C16: the slice getServiceIDs returned is not changed by later changes
\* of the registry, and setupServices and healthcheckServices iterating it
\* neither fail at an id that was removed nor bring a record back under it.
C16_SnapshotStaysIterable ==
    [][pc = "held" =>
        /\ hc'.ids = hc.ids
        /\ \A id \in Stale :
              /\ pc' # "held" => id \notin DOMAIN Services'
              /\ LET st == [S |-> Services, reg |-> registered,
                            next |-> created, outcome |-> "ok"]
                 IN setupOne(st, env, id, "") = st
              /\ LET st == [S |-> Services, reg |-> registered]
                 IN healthcheckOne(st, env, id) = st]_vars

\* C16 witness: setupServices has iterated a slice with an id whose record
\* was removed after the slice was taken.
C16_Witness ==
    /\ pc = "setupDone"
    /\ Stale # {}

\* C17: addService with an id already present replaces the record and
\* keeps the size and the other records; removeService of an absent id
\* changes nothing; getService and getServiceStatus of an absent id return
\* the zero record and 0 and change nothing.
C17_RegistryOperations ==
    [][LET id == call'.id
           known == id \in DOMAIN Services
       IN /\ (pc' = "addService" /\ known) =>
                /\ Services'[id] = hc'.service
                /\ totalServices(Services') = totalServices(Services)
                /\ \A k \in DOMAIN Services \ {id} :
                      k \in DOMAIN Services' /\ Services'[k] = Services[k]
          /\ (pc' = "removeService" /\ ~known) => Services' = Services
          /\ (pc' = "getService" /\ ~known) =>
                hc'.service = ZeroService /\ Services' = Services
          /\ (pc' = "getServiceStatus" /\ ~known) =>
                hc'.totalErrors = 0 /\ Services' = Services]_vars

\* C17 witness: addService has replaced the record of an id that had a
\* different record, after an earlier call.
C17_Witness ==
    /\ pc = "addService"
    /\ call.calls = 2
    /\ call.adds[1].s.ServiceID = call.id
    /\ Services[call.id] # call.adds[1].s

\* setupServices run on the result of a run that returned no error
\* returns no error and changes nothing.
SecondRunIdle(first, e, ids, failKey) ==
    LET again == setupServices(first.S, first.reg, first.next, e, ids, failKey)
    IN /\ again.outcome = "ok"
       /\ again.S = first.S
       /\ again.reg = first.reg
       /\ again.next = first.next

\* What one run of setupServices may change, and what a second run does.
AttachesOnlyPending ==
    pc \in {"boot", "setup"} =>
        /\ \A k \in DOMAIN Services :
              Services[k].Collector # NoCollector =>
                  k \in DOMAIN Services' /\ Services'[k] = Services[k]
        /\ registered \subseteq registered'
        /\ \A c \in registered' \ registered :
              \E k \in Pending(Services) : Services'[k].Collector = c
        /\ \A s \in DOMAIN created' :
              Built(created', s) # Built(created, s) =>
                  \E k \in Pending(Services) : Services[k].ServiceID = s
        /\ pc' = "health" =>
              \A ids \in setupOrders(Services'),
                 failKey \in Pending(Services') \cup {""} :
                  SecondRunIdle([S |-> Services', reg |-> registered',
                                 next |-> created', outcome |-> "ok"], env,
                                ids, failKey)
        /\ pc = "boot" =>
              \A ids \in setupOrders(Services),
                 failKey \in Pending(Services) \cup {""} :
                  LET first == setupServices(Services, registered, created,
                                             env, ids, failKey)
                  IN first.outcome = "ok" =>
                       \A ids2 \in setupOrders(first.S),
                          failKey2 \in Pending(first.S) \cup {""} :
                           SecondRunIdle(first, env, ids2, failKey2)

C19_LookupFailureWaits ==
    [][/\ (pc = "lookup" /\ pc' = "skipLookup") =>
              /\ Services' = Services
              /\ registered' = registered
              /\ created' = created
       /\ pc = "skipLookup" =>
              /\ pc' # "lookup"
              /\ Services' = Services
              /\ registered' = registered
              /\ created' = created]_vars

\* C20: when the collector of a service cannot be built, setupServices
\* removes no record, the service stays in the registry without a
\* collector, and the loop does not start the next iteration (lookup, then
\* attachment) before it has been at its sleep-or-cancel boundary.
C20_BuildFailureWaits ==
    [][/\ pc = "setup" =>
              \A k \in Pending(Services) : k \in DOMAIN Services'
       /\ (pc = "setup" /\ pc' = "skipSetup") =>
              \E k \in Pending(Services) : k \in Pending(Services')
       /\ pc = "skipSetup" =>
              /\ pc' # "lookup"
              /\ Services' = Services
              /\ registered' = registered]_vars

\* A setupServices step that ends by returning to its caller, with every
\* handle stored in a record registered.
SetupReturns ==
    pc \in {"boot", "setup"} =>
        /\ pc' # "crashed"
        /\ \A k \in DOMAIN Services' :
              Services'[k].Collector # NoCollector =>
                  Services'[k].Collector \in registered'

\* C21: when the registration of a newly built collector fails,
\* setupServices returns an error: the supervisor does not crash, and the
\* record is not given the handle that was not registered.
C21_RegistrationFailureReported == [][SetupReturns]_vars

\* What discovery returns for the process pid of host state e.
Discovered(e, pid, cfg) ==
    LET proc == Processes[pid]
    IN CASE proc.err # "" -> [ok |-> FALSE, s |-> ZeroService]
         [] proc.name = "postgres" /\ proc.ppid = 1 -> discoverPostgres(e, proc, cfg)
         [] proc.name = "pgbouncer" -> discoverPgbouncer(e, proc, cfg)
         [] OTHER -> [ok |-> FALSE, s |-> ZeroService]

\* A lookupServices pass that returned nil has handled every process that
\* can be discovered, whatever processes came before it.
EveryProcessExamined ==
    (pc = "lookup" /\ pc' = "setup") =>
        \A i \in 1..Len(Pids(env)) :
          LET pid == Pids(env)[i]
          IN
            Discovered(env, pid, config).ok =>
                getService(Services', Discovered(env, pid, config).s.ServiceID).ServiceID
                    = Discovered(env, pid, config).s.ServiceID

\* C22: in one lookupServices pass an error on one process skips that
\* process only: the processes after it are examined, and every process
\* that can be discovered has its record when the pass returns.
C22_ProcessErrorSkipsOne == [][EveryProcessExamined]_vars

\* C22 witness: a pass that met a vanished process, a nameless one and
\* engines with a missing -D argument and unreadable or invalid metadata has
\* added the pooler, which comes after them in the enumeration.
C22_Witness ==
    /\ pc = "setup"
    /\ \A pid \in {20, 21, 30, 31, 32, 33} : Running(env, pid)
    /\ \A pid \in {20, 21, 30, 31, 32, 33} : ~Discovered(env, pid, config).ok
    /\ "pgbouncer:6432" \in DOMAIN Services
    /\ ~ticked

\* A configured service whose conninfo parses and accepts a connection.
Usable(e, cs) ==
    ParseConfig(cs.Conninfo).ok /\ Connects(e, ParseConfig(cs.Conninfo))

\* The registry key of a configured service.
KeyOf(cs) ==
    cs.ServiceType \o ":" \o ParseConfig(cs.Conninfo).Host \o ":"
        \o Itoa(ParseConfig(cs.Conninfo).Port)

\* C23: at start-up, for every list of configured services,
\* addServicesFromConfig adds system:0 and a record for exactly those
\* configured services whose conninfo parses and accepts a connection,
\* wherever in the list the other ones stand.
C23_ConfiguredAddedIffUsable ==
    pc = "init" =>
        \A settings \in ConnSettingsInputs :
            LET S2 == addServicesFromConfig(Services, env,
                          [ConnSettings |-> settings,
                           ConnDefaults |-> config.ConnDefaults])
            IN /\ "system:0" \in DOMAIN S2
               /\ S2["system:0"] = SystemService
               /\ \A i \in 1..Len(settings) :
                     Usable(env, settings[i]) =>
                         /\ KeyOf(settings[i]) \in DOMAIN S2
                         /\ S2[KeyOf(settings[i])].ConnSettings = settings[i]
               /\ \A k \in DOMAIN S2 \ {"system:0"} :
                     \E i \in 1..Len(settings) :
                         Usable(env, settings[i]) /\ k = KeyOf(settings[i])

\* C23 witness: the bootstrap has skipped a configured service and added
\* the one listed after it, next to system:0.
C23_Witness ==
    /\ pc = "boot"
    /\ "system:0" \in DOMAIN Services
    /\ KeyOf(cfgB) \in DOMAIN Services
    /\ KeyOf(cfgA) \notin DOMAIN Services
    /\ Usable(env, cfgB)

\* A line that is the decimal rendering of an integer.
IsInteger(line) == \E n \in Numbers : Itoa(n) = line

\* A pidfile in the six-line form: pid, data directory, start timestamp,
\* port, socket directory, listen address.
SixLineForm(file) ==
    /\ file.ok
    /\ Len(file.content) = 6
    /\ \A i \in {1, 3, 4} : IsInteger(file.content[i])

\* C24: for a pidfile in the six-line form newPostgresConnectionParams
\* returns, without error, parameters whose six fields are the six lines,
\* with 127.0.0.1 for a listen address line "*".
C24_PidFileRoundTrip ==
    (pc = "returned" /\ ret.fn = "newPostgresConnectionParams"
        /\ SixLineForm(ret.in)) =>
        /\ ret.out.ok
        /\ Itoa(ret.out.p.pid) = ret.in.content[1]
        /\ ret.out.p.datadirPath = ret.in.content[2]
        /\ Itoa(ret.out.p.startTs) = ret.in.content[3]
        /\ Itoa(ret.out.p.listenPort) = ret.in.content[4]
        /\ ret.out.p.unixSocketDirPath = ret.in.content[5]
        /\ ret.out.p.listenAddr =
              IF ret.in.content[6] = "*" THEN "127.0.0.1" ELSE ret.in.content[6]

\* C24 witness: newPostgresConnectionParams has returned for a six-line
\* pidfile whose listen address line is "*".
C24_Witness ==
    /\ pc = "returned"
    /\ ret.fn = "newPostgresConnectionParams"
    /\ SixLineForm(ret.in)
    /\ ret.in.content[6] = "*"
    /\ ret.out.p.listenPort = 6432

\* C25: discoverPostgres returns an error, and so no candidate service,
\* when the command line has no -D with a value, when the pidfile has fewer
\* than six lines, and when its pid, start timestamp or port line is not an
\* integer.
C25_InvalidMetadataRejected ==
    (/\ pc = "returned"
     /\ ret.fn = "discoverPostgres"
     /\ \/ ~parsePostgresProcessCmdline(ret.in.cmdline).ok
        \/ ret.in.file.ok /\ Len(ret.in.file.content) < 6
        \/ \E i \in {1, 3, 4} \cap DOMAIN ret.in.file.content :
              ~IsInteger(ret.in.file.content[i]))
        => ~ret.out.ok

\* White space inside a line of an ini file.
Blank == {" ", "\t"}

\* The line without its white space.
Strip(line) == SelectSeq(line, LAMBDA c : c \notin Blank)

\* The lines of an ini file that set key: no comment, key = value.
SettingsOf(content, key) ==
    {i \in 1..Len(content) :
        /\ content[i] # <<>>
        /\ Head(content[i]) \notin {";", "#"}
        /\ Len(Split(Strip(content[i]), "=")) = 2
        /\ Split(Strip(content[i]), "=")[1] = <<key>>}

\* The value the file gives for key: that of the last line setting it.
GivenValue(content, key) ==
    LET last == CHOOSE i \in SettingsOf(content, key) :
                    \A j \in SettingsOf(content, key) : j <= i
    IN Split(Strip(content[last]), "=")[2]

\* C26: parsePgbouncerIniFile returns the first entry of the listen_addr
\* value (127.0.0.1 for *), the listen_port given or 6432, and the
\* unix_socket_dir given or /tmp; comments, empty lines and other keys
\* have no influence.
C26_IniFileParameters ==
    (/\ pc = "returned"
     /\ ret.fn = "parsePgbouncerIniFile"
     /\ \A i \in SettingsOf(ret.in.content, "listen_port") :
           IsInteger(Join(Split(Strip(ret.in.content[i]), "=")[2])))
        =>
        /\ ret.out.ok
        /\ SettingsOf(ret.in.content, "listen_addr") # {} =>
              ret.out.p.listenAddr =
                  LET first == Join(Split(GivenValue(ret.in.content,
                                                     "listen_addr"), ",")[1])
                  IN IF first = "*" THEN "127.0.0.1" ELSE first
        /\ ret.out.p.listenPort =
              IF SettingsOf(ret.in.content, "listen_port") = {} THEN 6432
              ELSE Atoi(Join(GivenValue(ret.in.content, "listen_port"))).n
        /\ ret.out.p.unixSocketDirPath =
              IF SettingsOf(ret.in.content, "unix_socket_dir") = {} THEN "/tmp"
              ELSE Join(GivenValue(ret.in.content, "unix_socket_dir"))

\* The host of the transport asked for, and the words after host and port.
HostFor(in) ==
    IF in.unix THEN in.connParams.unixSocketDirPath ELSE in.connParams.listenAddr

UserWords(in) ==
    <<<<"user", IF "postgres_username" \in DOMAIN in.defaults
                THEN in.defaults["postgres_username"] ELSE "pgscv">>,
      <<"dbname", IF "postgres_dbname" \in DOMAIN in.defaults
                  THEN in.defaults["postgres_dbname"] ELSE "postgres">>>>
        \o (IF "postgres_password" \in DOMAIN in.defaults
               /\ in.defaults["postgres_password"] # ""
            THEN <<<<"password", in.defaults["postgres_password"]>>>>
            ELSE <<>>)

\* C27 as stated: the string is application_name=pgscv, host=<socket
\* directory or listen address>, port=<listen port>, user, dbname and,
\* for a non-empty password, password, for all parameters.
C27_ConnectionStringForm ==
    (pc = "returned" /\ ret.fn = "newPostgresConnectionString") =>
        ret.out = <<<<"application_name", "pgscv">>,
                    <<"host", HostFor(ret.in)>>,
                    <<"port", Itoa(ret.in.connParams.listenPort)>>>>
                      \o UserWords(ret.in)

\* C27, amended: the same string, in which host=... stands only for a
\* non-empty socket directory (unix) or listen address (TCP) and port=...
\* only for a listen port above 0.
C27_ConnectionStringFormWhenSet ==
    (pc = "returned" /\ ret.fn = "newPostgresConnectionString") =>
        ret.out = <<<<"application_name", "pgscv">>>>
                      \o (IF HostFor(ret.in) # ""
                          THEN <<<<"host", HostFor(ret.in)>>>> ELSE <<>>)
                      \o (IF ret.in.connParams.listenPort > 0
                          THEN <<<<"port", Itoa(ret.in.connParams.listenPort)>>>>
                          ELSE <<>>)
                      \o UserWords(ret.in)

\* C27 witness: the string for the unix transport has been built from
\* parameters with a socket directory and a listen address, and with a
\* configured password.
C27_Witness ==
    /\ pc = "returned"
    /\ ret.fn = "newPostgresConnectionString"
    /\ ret.in.unix
    /\ ret.in.connParams.unixSocketDirPath = "/tmp"
    /\ ret.in.connParams.listenAddr = "10.0.0.1"
    /\ ret.in.connParams.listenPort = 5432
    /\ ret.out[Len(ret.out)] = <<"password", "secret">>

\* A configuration with a push URL and no API key.
KeyMissing(c) == c.SendMetricsURL # "" /\ c.APIKey = ""

\* C28: Config.Validate returns the API-key error exactly for the
\* configurations with send_metrics_url set and api_key empty, and main
\* never starts the supervisor with such a configuration.
C28_PushNeedsKey ==
    /\ (ret.fn = "main" /\ ret.out # <<>>) =>
          (KeyMissing(ret.in) <=> ret.out.err = "API key should be specified")
    /\ (ret.fn = "main" /\ KeyMissing(ret.in)) =>
          pc \notin {"validated", "started"}

\* C28 witness: main has exited on the API-key error of Validate.
C28_Witness ==
    /\ pc = "exited"
    /\ ret.fn = "main"
    /\ KeyMissing(ret.in)
    /\ ret.out # <<>>
    /\ ret.out.err # ""

\* The total of counter f over the CPUs of a reading.
RECURSIVE Total(_, _)
Total(stats, f) ==
    IF stats = <<>> THEN 0 ELSE Head(stats)[f] + Total(Tail(stats), f)

Decreased(cache, newStats, i) ==
    \E f \in DOMAIN ZeroCPUStat : newStats[i][f] < cache[i][f]

\* An update for the same CPUs leaves, for every CPU with a decreased
\* counter, the cache reset to zero and then set to the reading, and resets
\* no counter of the other CPUs.
ResetsOnDecrease ==
    (pc = "cpu" /\ Len(cpuCollector.cpuStats) = Len(ret'.in)) =>
        \A i \in 1..Len(ret'.in) :
            IF Decreased(cpuCollector.cpuStats, ret'.in, i)
            THEN cpuCollector'.cpuStats[i] = ret'.in[i]
            ELSE \A f \in DOMAIN ZeroCPUStat :
                     cpuCollector'.cpuStats[i][f] >= cpuCollector.cpuStats[i][f]

\* C30: in updateCPUStats, a CPU with any counter of the reading below its
\* cached value has all its cached counters reset to zero before the new
\* values are stored, and the cache of every other CPU is not reset.
C30_AnyDecreaseResets == [][ResetsOnDecrease]_vars

----------------------------------------------------------------------------
(* Order of the steps of an eviction *)

\* A step of healthcheckServices in its eviction branch: the removal finds
\* the collector of the record out of the registerer, an unregistration
\* leaves the record in the map, and a record without a collector goes to
\* the removal at once.
EvictsInOrder ==
    /\ (at["loop"] = Inside("removeService") /\ at'["loop"] # at["loop"])
           => /\ hc.id \notin DOMAIN Services'
              /\ hc.service.Collector \notin registered
              /\ getService(Services, hc.id).Collector \notin registered
    /\ registered' # registered
           => /\ at["loop"] = Inside("Unregister(Services[id].Collector)")
              /\ hc.id \in DOMAIN Services'
              /\ Services' = Services
    /\ (/\ at["loop"] = Inside("Services[id].Collector != nil")
        /\ getService(Services, hc.id).Collector = NoCollector
        /\ at'["loop"] \notin {at["loop"], Outside("fatal")})
           => /\ at'["loop"] = Outside("removeService")
              /\ registered' = registered

\* C31: when healthcheckServices evicts a service it unregisters the
\* collector of the service before it removes the record from the registry,
\* and it removes the record also when the service has no collector.
C31_UnregisterBeforeRemove == [][EvictsInOrder]_vars

\* C31 witness: the loop is about to remove a record whose collector it has
\* just unregistered.
C31_Witness ==
    /\ at["loop"] = Inside("removeService")
    /\ hc.service.Collector # NoCollector
    /\ hc.service.Collector \notin registered
    /\ hc.id \in DOMAIN Services

\* C31, the other case: the loop is about to remove a record that has no
\* collector.
EvictsWithoutCollector ==
    /\ at["loop"] = Inside("removeService")
    /\ hc.id \in DOMAIN Services
    /\ Services[hc.id].Collector = NoCollector

----------------------------------------------------------------------------
(* Order of the steps of a tick *)

\* A step of the loop in a process that keeps running: a discovery pass
\* that returned no error is followed by attachment, attachment by the
\* health check, the health check by the select, and the health check is
\* entered from attachment only.
TickInOrder ==
    /\ (pc = "lookup" /\ pc' # pc) => pc' \in {"setup", "skipLookup"}
    /\ (pc = "setup" /\ pc' # pc) => pc' \in {"health", "crashed"}
    /\ (pc = "health" /\ pc' # pc) => pc' = "sleep"
    /\ (pc' = "health" /\ pc # pc') => pc = "setup"

\* C32: after every discovery pass of the loop attachment is run and then
\* the health check, in that order, before the loop reaches its select; the
\* health check never runs before attachment within a tick.
C32_AttachThenHealthcheck == [][TickInOrder]_vars

----------------------------------------------------------------------------
(* The probes of discoverPostgres *)

\* C33: discoverPostgres probes the unix-socket connection string first
\* and the TCP connection string second; the first probe that succeeds
\* gives the conninfo stored in the service and no probe is made after a
\* success: TCP is tried only when the unix probe failed.
C33_FirstSuccessfulProbeWins ==
    (pc = "returned" /\ ret.fn = "discoverPostgres" /\ ret.out.ok) =>
        LET probes == ret.out.probes
            connParams == newPostgresConnectionParamsFrom(ret.in.file).p
            last == Len(probes)
        IN /\ last \in {1, 2}
           /\ probes[1].unix
           /\ probes[1].connString =
                  newPostgresConnectionString(connParams, config.ConnDefaults, TRUE)
           /\ last = 2 <=> ~probes[1].ok
           /\ last = 2 =>
                  /\ ~probes[2].unix
                  /\ probes[2].connString =
                         newPostgresConnectionString(connParams,
                                                     config.ConnDefaults, FALSE)
           /\ \A i \in 1..last :
                  /\ probes[i].ok <=> attemptConnect(env, probes[i].connString)
                  /\ probes[i].ok =>
                         /\ i = last
                         /\ ret.out.s.ConnSettings.Conninfo = probes[i].connString

\* C33 witness: the unix probe failed, the TCP probe succeeded and its
\* string is the conninfo of the service.
C33_Witness ==
    /\ pc = "returned"
    /\ ret.fn = "discoverPostgres"
    /\ ret.out.ok
    /\ Len(ret.out.probes) = 2
    /\ ~ret.out.probes[1].ok
    /\ ret.out.probes[2].ok
    /\ ret.out.s.ConnSettings.Conninfo = ret.out.probes[2].connString

\* C33, the other case: the unix probe succeeded and was the only one.
UnixProbeOnly ==
    /\ pc = "returned"
    /\ ret.fn = "discoverPostgres"
    /\ ret.out.ok
    /\ Len(ret.out.probes) = 1
    /\ ret.out.probes[1].ok

----------------------------------------------------------------------------
(* One snapshot per scrape *)

\* C34: the samples one updateStat invocation sends are taken from the same
\* state of the aggregate: no concurrent updateCPUStats changes cpuStatsSum
\* between the first and the last sample of that invocation.
C34_OneSnapshotPerInvocation ==
    \A g \in Scrapers :
        LET s == scrape.of[g]
        IN /\ \A i \in 1..Len(s.sent) :
                  /\ s.from[i] = s.from[1]
                  /\ s.sent[i] = s.from[1][SampleFields[i]]
           /\ (s.sent # <<>> /\ s.at \in {"send", "return"}) =>
                  cpuCollector.cpuStatsSum = s.from[1]

\* C34 witness: a goroutine has sent its first sample while the other one
\* waits to update the aggregate with a reading that changes it.
C34_Witness ==
    \E g, h \in Scrapers :
        /\ scrape.of[g].at = "send"
        /\ Len(scrape.of[g].sent) = 1
        /\ scrape.of[h].at = "updateCPUStats"
        /\ updateCPUStats(cpuCollector, scrape.of[h].stats).cpuStatsSum
               # cpuCollector.cpuStatsSum

----------------------------------------------------------------------------
(* The aggregate and the per-CPU cache *)

\* C35: after each updateCPUStats every field of cpuStatsSum is the sum of
\* that field over the per-CPU cache cpuStats as that call updated it, also
\* when a counter other than Idle jumped backwards and the cache kept its
\* value.
C35_AggregateIsCacheSum ==
    ret.fn = "updateCPUStats" =>
        \A f \in DOMAIN ZeroCPUStat :
            cpuCollector.cpuStatsSum[f] = Total(cpuCollector.cpuStats, f)

----------------------------------------------------------------------------
(* Registered collectors and the collectors of the records *)

\* The keys of the records that hold collector c.
Holders(c) == {k \in DOMAIN Services : Services[k].Collector = c}

\* C36: collector registrations do not leak: between the exported
\* operations AddServicesFromConfig, SetupServices and
\* StartBackgroundDiscovery and at the boundaries of the ticks of the loop,
\* every registered collector is the collector of exactly one record, and
\* the collector of every record is registered.
C36_NoCollectorLeak ==
    pc \in {"boot", "ready", "lookup", "sleep"} =>
        /\ \A c \in registered : Cardinality(Holders(c)) = 1
        /\ \A k \in DOMAIN Services :
               Services[k].Collector # NoCollector =>
                   Services[k].Collector \in registered

----------------------------------------------------------------------------
(* The write-back of setupServices *)

\* The write-back of setupServices leaves a removed record out and the
\* failure counter of a present record as it is.
WriteBackKeeps ==
    (at["caller"] = Inside("addService") /\ Services' # Services) =>
        /\ call.id \in DOMAIN Services
        /\ Services'[call.id].TotalErrors = Services[call.id].TotalErrors

\* C37: the read-modify-write of a record in setupServices is not disturbed
\* by concurrent mutations of the registry: when another goroutine removed
\* the record or changed its failure counter between the read and the
\* write-back of the copy with the collector, the write-back neither
\* inserts the removed record again nor reverts the counter.
C37_WriteBackUndisturbed == [][WriteBackKeeps]_vars

----------------------------------------------------------------------------
(* The counter operations on an unknown id *)

\* A call of markServiceFailed or markServiceHealthy with an id that is not
\* a key of the registry leaves the registry as it is.
MarkUnknownKeeps ==
    (pc' \in {"markServiceFailed", "markServiceHealthy"}
        /\ call'.calls = call.calls + 1
        /\ call'.id \notin DOMAIN Services)
        => /\ Services' = Services
           /\ totalServices(Services') = totalServices(Services)

\* C38: markServiceFailed and markServiceHealthy called with an id that is
\* not in the registry, for example one removed after the id snapshot was
\* taken, leave the registry unchanged: no record is created and the size
\* of the registry stays the same.
C38_MarkUnknownIsNoOp == [][MarkUnknownKeeps]_vars

----------------------------------------------------------------------------
(* Keys and service ids *)

\* C39: for every entry of the registry the key under which the record is
\* stored is the ServiceID of the record, after any sequence of bootstrap
\* from configuration, discovery, attachment and health checks.
C39_KeyIsServiceID ==
    \A k \in DOMAIN Services : Services[k].ServiceID = k

----------------------------------------------------------------------------
(* Probes are one-shot *)

\* C40: every connection a connection probe opens is closed before the
\* probe returns, whether it succeeded or failed: between probes the
\* supervisor holds no open connection.
C40_NoConnectionHeldBetweenProbes ==
    conns.at = "idle" => conns.open = {}

\* Two probes have returned, one that connected and one that did not.
C40_Witness ==
    /\ conns.at = "idle"
    /\ conns.opened > 0
    /\ TRUE \in {conns.results[i] : i \in 1..Len(conns.results)}
    /\ FALSE \in {conns.results[i] : i \in 1..Len(conns.results)}

\* A probe holds at most the connection it opened.
ProbeHoldsItsConnection ==
    conns.open \subseteq {conns.db}

====
